---- MODULE Spec2Model ----
(***************************************************************************)
(* A model of pdfplaca (pdfplaca.cpp): the text-fitting and layout engine  *)
(* of a program that renders a block of text as a placard on PDF pages.    *)
(*                                                                         *)
(* The program computes in IEEE doubles.  The model computes in exact      *)
(* rationals.  The fit solvers multiply by 1.1 (or 1.05, 0.95) up to the   *)
(* font-size guard of 10000, so a number is kept as a mantissa fraction    *)
(* times powers of 11/10, 21/20 and 19/20; comparisons and sums expand the *)
(* powers into arbitrary-precision naturals (sequences of limbs).  Every   *)
(* arithmetic expression of the source is translated term by term into     *)
(* the Rat operators.                                                      *)
(***************************************************************************)
EXTENDS Integers, Sequences, FiniteSets, TLC

(***************************************************************************)
(* Arbitrary-precision naturals: little-endian limbs, no leading zero      *)
(* limb, zero is the empty sequence.                                       *)
(***************************************************************************)
LimbBase == 10000

RECURSIVE BigFromNat(_)
BigFromNat(k) ==
    IF k = 0 THEN <<>> ELSE <<k % LimbBase>> \o BigFromNat(k \div LimbBase)

\* drop the leading zero limbs (the top of the sequence)
BigStrip(x) ==
    IF x = <<>> THEN <<>>
    ELSE IF x[Len(x)] # 0 THEN SubSeq(x, 1, Len(x))
    ELSE IF \A k \in 1..Len(x) : x[k] = 0 THEN <<>>
    ELSE SubSeq(x, 1, CHOOSE k \in 1..Len(x) :
                        x[k] # 0 /\ \A j \in (k + 1)..Len(x) : x[j] = 0)

\* carry propagation in passes over all limbs at once: s[k] may exceed a limb
RECURSIVE BigCarry(_)
BigCarry(s) ==
    IF \A k \in 1..Len(s) : s[k] < LimbBase THEN BigStrip(s)
    ELSE BigCarry(SubSeq([k \in 1..(Len(s) + 1) |->
                            (IF k <= Len(s) THEN s[k] % LimbBase ELSE 0)
                            + (IF k > 1 THEN s[k - 1] \div LimbBase ELSE 0)],
                         1, Len(s) + 1))

\* borrow propagation in passes: s[k] may be negative, the total is >= 0
RECURSIVE BigBorrow(_)
BigBorrow(s) ==
    IF \A k \in 1..Len(s) : s[k] >= 0 THEN BigStrip(s)
    ELSE BigBorrow(SubSeq([k \in 1..Len(s) |->
                             (IF s[k] < 0 THEN s[k] + LimbBase ELSE s[k])
                             - (IF k > 1 /\ s[k - 1] < 0 THEN 1 ELSE 0)],
                          1, Len(s)))

BigLimb(x, k) == IF k >= 1 /\ k <= Len(x) THEN x[k] ELSE 0
BigLen2(x, y) == IF Len(x) < Len(y) THEN Len(y) ELSE Len(x)

\* x times a limb c (0 <= c < LimbBase)
BigMulLimb(x, c) ==
    BigCarry(SubSeq([k \in 1..Len(x) |-> x[k] * c], 1, Len(x)))

BigAdd(x, y) ==
    BigCarry(SubSeq([k \in 1..BigLen2(x, y) |-> BigLimb(x, k) + BigLimb(y, k)],
                    1, BigLen2(x, y)))

\* x - y for x >= y
BigSub(x, y) ==
    BigBorrow(SubSeq([k \in 1..Len(x) |-> x[k] - BigLimb(y, k)], 1, Len(x)))

\* x times the limbs lo..hi of y, each at its place: the two halves are added
RECURSIVE BigMulRange(_, _, _, _)
BigMulRange(x, y, lo, hi) ==
    IF lo = hi
    THEN BigCarry(SubSeq([k \in 1..(Len(x) + lo - 1) |->
                            IF k < lo THEN 0 ELSE x[k - lo + 1] * y[lo]],
                         1, Len(x) + lo - 1))
    ELSE BigAdd(BigMulRange(x, y, lo, (lo + hi) \div 2),
                BigMulRange(x, y, (lo + hi) \div 2 + 1, hi))

\* the shorter factor drives the recursion
BigMul(x, y) ==
    IF x = <<>> \/ y = <<>> THEN <<>>
    ELSE IF x = <<1>> THEN y
    ELSE IF y = <<1>> THEN x
    ELSE BigMulRange(IF Len(x) < Len(y) THEN y ELSE x,
                     IF Len(x) < Len(y) THEN x ELSE y,
                     1, IF Len(x) < Len(y) THEN Len(x) ELSE Len(y))

\* the sign of x - y on limbs lo..hi of two numbers of the same length
RECURSIVE BigCmpRange(_, _, _, _)
BigCmpRange(x, y, lo, hi) ==
    IF lo = hi THEN (IF x[lo] < y[lo] THEN -1 ELSE IF x[lo] > y[lo] THEN 1 ELSE 0)
    ELSE IF SubSeq(x, (lo + hi) \div 2 + 1, hi) = SubSeq(y, (lo + hi) \div 2 + 1, hi)
    THEN BigCmpRange(x, y, lo, (lo + hi) \div 2)
    ELSE BigCmpRange(x, y, (lo + hi) \div 2 + 1, hi)

\* the sign of x - y: -1, 0 or 1
BigCmp(x, y) ==
    IF Len(x) # Len(y) THEN (IF Len(x) < Len(y) THEN -1 ELSE 1)
    ELSE IF x = <<>> THEN 0
    ELSE BigCmpRange(x, y, 1, Len(x))

(***************************************************************************)
(* Powers of the bases of the three multiplicative steps of the program.   *)
(***************************************************************************)
PowTabLen == 200
PowBlock == 25

\* the table acc = <<c^1, ..., c^k>> continued up to c^len
RECURSIVE PowTabAcc(_, _, _)
PowTabAcc(c, len, acc) ==
    IF Len(acc) >= len THEN acc
    ELSE PowTabAcc(c, len, Append(acc, BigMulLimb(acc[Len(acc)], c)))

\* <<c^1, ..., c^len>>, built in blocks of PowBlock entries
RECURSIVE PowTabTo(_, _)
PowTabTo(c, len) ==
    IF len <= PowBlock THEN PowTabAcc(c, len, << <<c>> >>)
    ELSE PowTabAcc(c, len, PowTabTo(c, len - PowBlock))

PowTab(c) == PowTabTo(c, PowTabLen)

Pow10 == PowTab(10)
Pow11 == PowTab(11)
Pow19 == PowTab(19)
Pow20 == PowTab(20)
Pow21 == PowTab(21)

(***************************************************************************)
(* Exact rationals: [neg, n, d, p] is                                      *)
(*   (-1)^neg * (n / d) * (11/10)^p[1] * (21/20)^p[2] * (19/20)^p[3]       *)
(* with n, d arbitrary-precision naturals, d # 0; zero has neg = FALSE.    *)
(***************************************************************************)
RECURSIVE GCD(_, _)
GCD(a, b) == IF b = 0 THEN a ELSE GCD(b, a % b)

NoPow == <<0, 0, 0>>
\* numerators and denominators of the three step factors
PowNum == <<Pow11, Pow21, Pow19>>
PowDen == <<Pow10, Pow20, Pow20>>

RatOf(n, d, g) ==
    [neg |-> FALSE, n |-> BigFromNat(n \div g), d |-> BigFromNat(d \div g),
     p |-> NoPow]
Rat(n, d) == RatOf(n, d, IF n = 0 THEN d ELSE GCD(n, d))
RatInt(n) == [neg |-> FALSE, n |-> BigFromNat(n), d |-> <<1>>, p |-> NoPow]
RatZero == RatInt(0)
RatOne == RatInt(1)
\* the three step factors: 1.1, 1.05 and 0.95
Rat1_1 == [RatOne EXCEPT !.p = <<1, 0, 0>>]
Rat1_05 == [RatOne EXCEPT !.p = <<0, 1, 0>>]
Rat0_95 == [RatOne EXCEPT !.p = <<0, 0, 1>>]

\* reduce a mantissa whose numerator and denominator are single limbs
RatNormBy(a, g) == [a EXCEPT !.n = <<a.n[1] \div g>>, !.d = <<a.d[1] \div g>>]
RatNorm(a) ==
    IF a.n = <<>> THEN [neg |-> FALSE, n |-> <<>>, d |-> <<1>>, p |-> NoPow]
    ELSE IF Len(a.n) = 1 /\ Len(a.d) = 1 THEN RatNormBy(a, GCD(a.n[1], a.d[1]))
    ELSE a

RatIsZero(a) == a.n = <<>>
RatNeg(a) == IF RatIsZero(a) THEN a ELSE [a EXCEPT !.neg = ~a.neg]
RatMul(a, b) ==
    RatNorm([neg |-> a.neg # b.neg, n |-> BigMul(a.n, b.n), d |-> BigMul(a.d, b.d),
             p |-> <<a.p[1] + b.p[1], a.p[2] + b.p[2], a.p[3] + b.p[3]>>])
\* 1 / b for b # 0
RatInv(b) == [neg |-> b.neg, n |-> b.d, d |-> b.n,
              p |-> <<-b.p[1], -b.p[2], -b.p[3]>>]
\* a / b for b # 0
RatDiv(a, b) == RatMul(a, RatInv(b))

\* the power i of a multiplied out into the mantissa
RatPeel(a, i) ==
    [neg |-> a.neg,
     n |-> BigMul(a.n, IF a.p[i] > 0 THEN PowNum[i][a.p[i]] ELSE PowDen[i][-a.p[i]]),
     d |-> BigMul(a.d, IF a.p[i] > 0 THEN PowDen[i][a.p[i]] ELSE PowNum[i][-a.p[i]]),
     p |-> [a.p EXCEPT ![i] = 0]]

\* the same number with its powers multiplied out: p = NoPow
RECURSIVE RatPlain(_)
RatPlain(a) ==
    IF a.p = NoPow THEN a
    ELSE RatPlain(RatPeel(a, CHOOSE i \in 1..3 : a.p[i] # 0))

\* a relative to the powers of b: the result times the powers of b is a
RatOver(a, b) ==
    RatPlain([a EXCEPT !.p = <<a.p[1] - b.p[1], a.p[2] - b.p[2], a.p[3] - b.p[3]>>])

\* (-1)^xneg * x + (-1)^yneg * y, over d
PlainSum(xneg, x, yneg, y, d) ==
    IF xneg = yneg THEN [neg |-> xneg, n |-> BigAdd(x, y), d |-> d, p |-> NoPow]
    ELSE IF BigCmp(x, y) = -1
    THEN [neg |-> yneg, n |-> BigSub(y, x), d |-> d, p |-> NoPow]
    ELSE [neg |-> xneg, n |-> BigSub(x, y), d |-> d, p |-> NoPow]

\* a + b for a, b with p = NoPow
PlainAdd(a, b) ==
    PlainSum(a.neg, BigMul(a.n, b.d), b.neg, BigMul(b.n, a.d), BigMul(a.d, b.d))

\* a sum keeps the powers of its second term
RatAdd(a, b) ==
    IF RatIsZero(a) THEN b
    ELSE IF RatIsZero(b) THEN a
    ELSE RatNorm([PlainAdd(RatOver(a, b), [b EXCEPT !.p = NoPow]) EXCEPT !.p = b.p])
RatSub(a, b) == RatAdd(a, RatNeg(b))

\* the sign of (-1)^xneg * x - (-1)^yneg * y
SignedCmp(xneg, x, yneg, y) ==
    IF x = <<>> /\ y = <<>> THEN 0
    ELSE IF xneg # yneg THEN (IF xneg THEN -1 ELSE 1)
    ELSE BigCmp(IF xneg THEN y ELSE x, IF xneg THEN x ELSE y)

\* the sign of a - b for a, b with p = NoPow
PlainCmp(a, b) == SignedCmp(a.neg, BigMul(a.n, b.d), b.neg, BigMul(b.n, a.d))

\* the sign of a - b; only the powers in which a and b differ are multiplied out
RatCmp(a, b) == PlainCmp(RatOver(a, b), [b EXCEPT !.p = NoPow])
RatLt(a, b) == RatCmp(a, b) = -1
RatLe(a, b) == RatCmp(a, b) # 1
RatEq(a, b) == RatCmp(a, b) = 0
RatMax(a, b) == IF RatLt(a, b) THEN b ELSE a

(***************************************************************************)
(* Strings are sequences of bytes (1..255, a C string ends before its NUL) *)
(* holding UTF-8; a Character is the byte sequence of one code point.      *)
(***************************************************************************)
\* (ch & 0xC0) != 0x80
u8_is_lead(ch) == ~(ch \in 128 .. 191)

\* the while of u8_len from str[i] on
RECURSIVE U8LenFrom(_, _, _)
U8LenFrom(str, i, len) ==
    IF i > Len(str) THEN len
    ELSE U8LenFrom(str, i + 1, IF u8_is_lead(str[i]) THEN len + 1 ELSE len)

u8_len(str) == U8LenFrom(str, 1, 0)

\* the for of u8_split_chars from str[i] on: s is the Character being
\* collected, chars the Characters already pushed
RECURSIVE SplitCharsFrom(_, _, _, _)
SplitCharsFrom(str, i, s, out) ==
    IF i > Len(str) THEN (IF s # <<>> THEN Append(out, s) ELSE out)
    ELSE IF u8_is_lead(str[i]) /\ s # <<>>
    THEN SplitCharsFrom(str, i + 1, <<str[i]>>, Append(out, s))
    ELSE SplitCharsFrom(str, i + 1, Append(s, str[i]), out)

\* A lead byte after the first byte always closes the Character before it, so
\* the Characters of a long string are those of its part before such a byte
\* followed by those of the rest: the loop runs over pieces of about
\* SplitBlock bytes, which keeps the recursion shallow.
SplitBlock == 16

LeadsIn(str, lo, hi) == {m \in lo .. hi : u8_is_lead(str[m])}

FirstOf(S) == CHOOSE m \in S : \A n \in S : m <= n

RECURSIVE SplitCharsRange(_, _, _)
SplitCharsCut(str, lo, hi, leads) ==
    IF leads = {} THEN SplitCharsFrom(SubSeq(str, lo, hi), 1, <<>>, <<>>)
    ELSE SplitCharsRange(str, lo, FirstOf(leads) - 1)
         \o SplitCharsRange(str, FirstOf(leads), hi)

SplitCharsRange(str, lo, hi) ==
    IF hi - lo < SplitBlock THEN SplitCharsFrom(SubSeq(str, lo, hi), 1, <<>>, <<>>)
    ELSE SplitCharsCut(str, lo, hi, LeadsIn(str, lo + (hi - lo) \div 2, hi))

u8_split_chars(str) == SplitCharsRange(str, 1, Len(str))

SeqHas(list, ptr) == \E i \in DOMAIN list : list[i] = ptr

u8_contains_one_of(ptr, char_set) == SeqHas(u8_split_chars(char_set), ptr)

(***************************************************************************)
(* Character categories of the layout, each over the character set of the  *)
(* source (the UTF-8 bytes of its string literal).                         *)
(***************************************************************************)
u8_is_space(ptr) == u8_contains_one_of(ptr, <<32, 227, 128, 128>>)

u8_is_paren_type_1(ptr) ==
    u8_contains_one_of(ptr,
        <<40, 239, 188, 136, 91, 239, 188, 187, 227, 128, 148, 227, 128, 144,
          239, 189, 155, 227, 128, 136, 227, 128, 138, 226, 137, 170, 239, 189,
          159, 226, 129, 133, 227, 128, 150, 227, 128, 152, 194, 171, 194, 187,
          227, 128, 153, 227, 128, 151, 226, 129, 134, 239, 189, 160, 226, 137,
          171, 227, 128, 139, 227, 128, 137, 239, 189, 157, 227, 128, 145, 227,
          128, 149, 239, 188, 189, 93, 239, 188, 137, 41>>)

u8_is_paren_type_2(ptr) ==
    u8_contains_one_of(ptr, <<227, 128, 140, 227, 128, 142>>)

u8_is_paren_type_3(ptr) ==
    u8_contains_one_of(ptr, <<227, 128, 143, 227, 128, 141>>)

u8_is_comma_period(ptr) ==
    u8_contains_one_of(ptr,
        <<227, 128, 129, 227, 128, 130, 239, 188, 140, 239, 188, 142>>)

u8_is_hyphen_dash(ptr) ==
    u8_contains_one_of(ptr,
        <<45, 239, 188, 141, 226, 128, 149, 227, 131, 188, 61, 239, 188, 157,
          226, 137, 161, 239, 189, 158>>)

u8_is_small_kana(ptr) ==
    u8_contains_one_of(ptr,
        <<227, 129, 129, 227, 129, 131, 227, 129, 133, 227, 129, 135, 227, 129,
          137, 227, 129, 163, 227, 130, 131, 227, 130, 133, 227, 130, 135, 227,
          130, 142, 227, 130, 149, 227, 130, 150, 227, 130, 161, 227, 130, 163,
          227, 130, 165, 227, 130, 167, 227, 130, 169, 227, 131, 181, 227, 135,
          176, 227, 131, 182, 227, 135, 177, 227, 135, 178, 227, 131, 131, 227,
          135, 179, 227, 135, 180, 227, 135, 181, 227, 135, 182, 227, 135, 183,
          227, 135, 184, 227, 135, 185, 227, 135, 186, 227, 131, 163, 227, 131,
          165, 227, 131, 167, 227, 135, 187, 227, 135, 188, 227, 135, 189, 227,
          135, 190, 227, 135, 191, 227, 131, 174>>)

(***************************************************************************)
(* The string functions.  An index is 1-based; 0 stands for npos.          *)
(***************************************************************************)
\* str.find(from, i), for a non-empty from
StrFind(str, from, i) ==
    IF \E k \in i .. Len(str) - Len(from) + 1 : SubSeq(str, k, k + Len(from) - 1) = from
    THEN FirstOf({k \in i .. Len(str) - Len(from) + 1 :
                    SubSeq(str, k, k + Len(from) - 1) = from})
    ELSE 0

\* the for (;;) of mstr_replace_all, i being the result of str.find(from, i)
RECURSIVE ReplaceAllAt(_, _, _, _)
ReplaceAllAt(str, from, to, i) ==
    IF i = 0 THEN str
    ELSE ReplaceAllAt(SubSeq(str, 1, i - 1) \o to \o SubSeq(str, i + Len(from), Len(str)),
                      from, to,
                      StrFind(SubSeq(str, 1, i - 1) \o to
                                \o SubSeq(str, i + Len(from), Len(str)),
                              from, i + Len(to)))

\* mstr_replace_all: the string str is left with
mstr_replace_all(str, from, to) == ReplaceAllAt(str, from, to, StrFind(str, from, 1))

\* str.find_first_of(chars, i)
StrFindFirstOf(str, delims, i) ==
    IF \E k \in i .. Len(str) : SeqHas(delims, str[k])
    THEN FirstOf({k \in i .. Len(str) : SeqHas(delims, str[k])})
    ELSE 0

\* the while of mstr_split, k being the result of find_first_of
RECURSIVE SplitAt(_, _, _, _, _)
SplitAt(str, delims, i, k, container) ==
    IF k = 0 THEN Append(container, SubSeq(str, i, Len(str)))
    ELSE SplitAt(str, delims, k + 1, StrFindFirstOf(str, delims, k + 1),
                 Append(container, SubSeq(str, i, k - 1)))

\* mstr_split: the container
mstr_split(str, delims) == SplitAt(str, delims, 1, StrFindFirstOf(str, delims, 1), <<>>)

RECURSIVE JoinFrom(_, _, _, _)
JoinFrom(container, sep, it, result) ==
    IF it > Len(container) THEN result
    ELSE JoinFrom(container, sep, it + 1, result \o sep \o container[it])

mstr_join(container, sep) ==
    IF container = <<>> THEN <<>> ELSE JoinFrom(container, sep, 2, container[1])

\* an escape that leaves a backslash as it is
EscapedByteSingle(ch) ==
    CASE ch = 9 -> <<92, 116>>
      [] ch = 10 -> <<92, 110>>
      [] ch = 13 -> <<92, 114>>
      [] ch = 12 -> <<92, 102>>
      [] OTHER -> <<ch>>

\* the switch of mstr_escape
EscapedByte(ch) ==
    CASE ch = 9 -> <<92, 116>>      \* \t
      [] ch = 10 -> <<92, 110>>     \* \n
      [] ch = 13 -> <<92, 114>>     \* \r
      [] ch = 12 -> <<92, 102>>     \* \f
      [] ch = 92 -> <<92, 92>>
      [] OTHER -> <<ch>>

RECURSIVE EscapeFrom(_, _, _)
EscapeFrom(str, ich, ret) ==
    IF ich > Len(str) THEN ret
    ELSE EscapeFrom(str, ich + 1, ret \o EscapedByte(str[ich]))

mstr_escape(str) == EscapeFrom(str, 1, <<>>)

\* a switch that has the default case only
UnescapedByteDefault(ch) == ch

\* the switch of mstr_unescape on the byte after a backslash
UnescapedByte(ch) ==
    CASE ch = 116 -> 9        \* t
      [] ch = 110 -> 10       \* n
      [] ch = 114 -> 13       \* r
      [] ch = 102 -> 12       \* f
      [] OTHER -> ch

RECURSIVE UnescapeFrom(_, _, _, _)
UnescapeFrom(str, ich, escaping, ret) ==
    IF ich > Len(str) THEN ret
    ELSE IF escaping
    THEN UnescapeFrom(str, ich + 1, FALSE, Append(ret, UnescapedByte(str[ich])))
    ELSE IF str[ich] # 92
    THEN UnescapeFrom(str, ich + 1, FALSE, Append(ret, str[ich]))
    ELSE IF ich = Len(str) THEN Append(ret, 92)
    ELSE UnescapeFrom(str, ich + 1, TRUE, ret)

mstr_unescape(str) == UnescapeFrom(str, 1, FALSE, <<>>)

\* a split that does not join a carriage return to the line feed after it
SplitEveryBreak(str) == mstr_split(mstr_replace_all(str, <<13>>, <<10>>), <<10>>)

\* u8_split_by_newlines: the rows
u8_split_by_newlines(str) ==
    mstr_split(mstr_replace_all(mstr_replace_all(str, <<13, 10>>, <<10>>),
                                <<13>>, <<10>>),
               <<10>>)

(***************************************************************************)
(* The script detectors.                                                   *)
(***************************************************************************)
\* a sequence length that takes every byte that cannot begin a code point of
\* up to 4 bytes for a code point of one byte
SkipCharsLenient(ch) ==
    IF ch < 128 THEN 1
    ELSE IF ch \in 192 .. 223 THEN 2
    ELSE IF ch \in 224 .. 239 THEN 3
    ELSE IF ch \in 240 .. 247 THEN 4
    ELSE 1

\* (the assert(0) before return -1 is compiled out with NDEBUG)
u8_get_skip_chars(ch) ==
    IF ch < 128 THEN 1
    ELSE IF ch \in 192 .. 223 THEN 2
    ELSE IF ch \in 224 .. 239 THEN 3
    ELSE IF ch \in 240 .. 247 THEN 4
    ELSE IF ch \in 248 .. 251 THEN 5
    ELSE IF ch \in 252 .. 253 THEN 6
    ELSE -1

\* the memory behind the terminating NUL of a string: what a read there
\* yields is not defined, one byte stands for all of it
VARIABLE beyond

\* pch[k] for ptr = str + i - 1: the byte of the string, its NUL, or what
\* lies behind the NUL
ByteAt(str, i) ==
    IF i <= Len(str) THEN str[i] ELSE IF i = Len(str) + 1 THEN 0 ELSE beyond

\* the positions of str that u32_from_u8(str + i - 1, &skip) reads: pch[0]
\* for the sequence length, and pch[1] .. pch[len - 1] in the cases 2, 3, 4
ReadsAt(str, i) ==
    IF u8_get_skip_chars(str[i]) \in 2 .. 4
    THEN i .. i + u8_get_skip_chars(str[i]) - 1
    ELSE {i}

\* the switch of u32_from_u8 for a sequence length len
DecodeLen(str, i, len) ==
    CASE len = 1 -> ByteAt(str, i)
      [] len = 2 -> (ByteAt(str, i) % 32) * 64 + (ByteAt(str, i + 1) % 64)
      [] len = 3 -> (ByteAt(str, i) % 16) * 4096 + (ByteAt(str, i + 1) % 64) * 64
                    + (ByteAt(str, i + 2) % 64)
      [] len = 4 -> (ByteAt(str, i) % 8) * 262144 + (ByteAt(str, i + 1) % 64) * 4096
                    + (ByteAt(str, i + 2) % 64) * 64 + (ByteAt(str, i + 3) % 64)
      [] OTHER -> 0

\* u32_from_u8(str + i - 1, &skip)
u32_from_u8(str, i) ==
    [u32 |-> DecodeLen(str, i, u8_get_skip_chars(str[i])),
     skip |-> IF u8_get_skip_chars(str[i]) \in 1 .. 4
              THEN u8_get_skip_chars(str[i]) ELSE -1]

\* for (int i = 0; i < skip && *pch; ++i) ++pch
SkipFrom(str, i, skip) == IF i + skip > Len(str) THEN Len(str) + 1 ELSE i + skip

\* a tier that follows the latest code point
TakeLatest(a, b) == b

\* if (ret < b) ret = b
MaxOf(a, b) == IF a < b THEN b ELSE a

\* what the ifs of u8_is_japanese_text raise ret to for one code point
JapaneseRank(u32) ==
    IF u32 \in 12352 .. 12447 \/ u32 \in 12448 .. 12543 \/ u32 \in 12784 .. 12799
    THEN 2
    ELSE IF \/ u32 \in 65281 .. 65437
            \/ u32 \in 13312 .. 19893 \/ u32 \in 19968 .. 40907
            \/ u32 \in 63744 .. 64106
            \/ u32 \in 12288 .. 12351
    THEN 1
    ELSE 0

RECURSIVE JapaneseFrom(_, _, _)
JapaneseStep(str, i, ret, d) ==
    IF d.skip = -1 THEN 0
    ELSE JapaneseFrom(str, SkipFrom(str, i, d.skip), MaxOf(ret, JapaneseRank(d.u32)))

JapaneseFrom(str, i, ret) ==
    IF i > Len(str) THEN ret ELSE JapaneseStep(str, i, ret, u32_from_u8(str, i))

u8_is_japanese_text(str) == JapaneseFrom(str, 1, 0)

\* the positions of str the calls of u32_from_u8 in the loop of
\* u8_is_japanese_text read, from the call at i on
RECURSIVE JapaneseReadsFrom(_, _, _)
JapaneseReadsFrom(str, i, reads) ==
    IF i > Len(str) THEN reads
    ELSE IF u32_from_u8(str, i).skip = -1 THEN reads \cup ReadsAt(str, i)
    ELSE JapaneseReadsFrom(str, SkipFrom(str, i, u32_from_u8(str, i).skip),
                           reads \cup ReadsAt(str, i))

\* one of the ifs of u8_is_chinese_text returns 1 for the code point
ChineseHit(u32) ==
    \/ u32 \in 19968 .. 40959 \/ u32 \in 63744 .. 64255
    \/ u32 \in 12032 .. 12255 \/ u32 \in 11904 .. 12031
    \/ u32 \in 13312 .. 19903
    \/ u32 \in 131072 .. 173791 \/ u32 \in 173824 .. 177983
    \/ u32 \in 177984 .. 178207 \/ u32 \in 178208 .. 183983
    \/ u32 \in 183984 .. 191471 \/ u32 \in 196608 .. 201551
    \/ u32 \in 201552 .. 205743
    \/ u32 \in 12288 .. 12351
    \/ u32 \in 194560 .. 195103

RECURSIVE ChineseFrom(_, _)
ChineseStep(str, i, d) ==
    IF d.skip = -1 THEN 0
    ELSE IF ChineseHit(d.u32) THEN 1
    ELSE ChineseFrom(str, SkipFrom(str, i, d.skip))

ChineseFrom(str, i) ==
    IF i > Len(str) THEN 0 ELSE ChineseStep(str, i, u32_from_u8(str, i))

u8_is_chinese_text(str) == ChineseFrom(str, 1)

KoreanRank(u32) ==
    IF \/ u32 \in 44032 .. 55215 \/ u32 \in 4352 .. 4607 \/ u32 \in 12592 .. 12687
       \/ u32 \in 43360 .. 43391 \/ u32 \in 55216 .. 55295 \/ u32 \in 65440 .. 65503
    THEN 2
    ELSE IF \/ u32 \in 19968 .. 40959 \/ u32 \in 63744 .. 64255
            \/ u32 \in 12032 .. 12255 \/ u32 \in 11904 .. 12031
            \/ u32 \in 12288 .. 12351
    THEN 1
    ELSE 0

RECURSIVE KoreanFrom(_, _, _)
KoreanStep(str, i, ret, d) ==
    IF d.skip = -1 THEN 0
    ELSE KoreanFrom(str, SkipFrom(str, i, d.skip), MaxOf(ret, KoreanRank(d.u32)))

KoreanFrom(str, i, ret) ==
    IF i > Len(str) THEN ret ELSE KoreanStep(str, i, ret, u32_from_u8(str, i))

u8_is_korean_text(str) == KoreanFrom(str, 1, 0)

(***************************************************************************)
(* Characters the model's texts are made of.                               *)
(***************************************************************************)
chW == <<87>>                       \* W
chI == <<105>>                      \* i
chDot == <<46>>                     \* .
chSpace == <<32>>
chHyphen == <<45>>                  \* -
chParen == <<40>>                   \* (
chZW == <<226, 128, 139>>           \* U+200B ZERO WIDTH SPACE
chA == <<227, 129, 130>>            \* U+3042 HIRAGANA LETTER A
chSmallTsu == <<227, 129, 163>>     \* U+3063 HIRAGANA LETTER SMALL TU
chKuten == <<227, 128, 130>>        \* U+3002 IDEOGRAPHIC FULL STOP
chKagi == <<227, 128, 140>>         \* U+300C LEFT CORNER BRACKET
chKagiClose == <<227, 128, 141>>    \* U+300D RIGHT CORNER BRACKET
chSumi == <<227, 128, 144>>         \* U+3010 LEFT BLACK LENTICULAR BRACKET
chKan == <<230, 188, 162>>          \* U+6F22, an ideograph of all three scripts
chChen == <<230, 178, 137>>         \* U+6C89, a simplified Chinese ideograph
chJak == <<236, 158, 145>>          \* U+C791, a Hangul syllable
chRadical == <<226, 188, 128>>      \* U+2F00 KANGXI RADICAL ONE

(***************************************************************************)
(* The Text Metrics Provider (cairo_text_extents, cairo_font_extents): a   *)
(* deterministic set of font faces whose extents are proportional to the   *)
(* font size.  cr, the cairo context, is the name of the selected face.    *)
(* A face has every one-byte character and the glyphs of its scripts; a    *)
(* character it has no glyph for, and the zero width space, have extents   *)
(* of zero.  GlyphAt10 gives a glyph's extents at font size 10, the size   *)
(* every solve starts from.                                                *)
(***************************************************************************)
FontScripts(cr) ==
    CASE cr = "Mincho" -> {"ja"}
      [] cr = "SimSun" -> {"zh"}
      [] cr = "Batang" -> {"ko"}
      [] cr = "Unifont" -> {"ja", "zh", "ko"}
      [] OTHER -> {}

\* the scripts one of which a face needs for a glyph of ch
GlyphScripts(ch) ==
    IF Len(ch) = 1 THEN {"latin"}
    ELSE IF ch = chChen THEN {"zh"}
    ELSE IF ch[1] = 227 THEN {"ja"}                     \* U+3000 - U+3FFF
    ELSE IF ch[1] \in 228 .. 233 THEN {"ja", "zh", "ko"}  \* ideographs
    ELSE IF ch[1] \in 234 .. 237 THEN {"ko"}            \* Hangul
    ELSE IF ch[1] = 239 THEN {"ja", "zh", "ko"}         \* fullwidth forms
    ELSE {}

HasGlyph(cr, ch) == GlyphScripts(ch) \cap (FontScripts(cr) \cup {"latin"}) # {}

GlyphAt10 ==
    [W |-> [width |-> 9, height |-> 7, x_advance |-> 10],
     i |-> [width |-> 2, height |-> 7, x_advance |-> 3],
     dot |-> [width |-> 1, height |-> 1, x_advance |-> 3],
     sp |-> [width |-> 0, height |-> 0, x_advance |-> 3],
     none |-> [width |-> 0, height |-> 0, x_advance |-> 0],
     hyphen |-> [width |-> 4, height |-> 1, x_advance |-> 5],
     paren |-> [width |-> 3, height |-> 9, x_advance |-> 4],
     wide |-> [width |-> 8, height |-> 8, x_advance |-> 10],
     kuten |-> [width |-> 3, height |-> 3, x_advance |-> 10]]

GlyphOf(cr, ch) ==
    IF ~HasGlyph(cr, ch) THEN GlyphAt10.none
    ELSE CASE ch = chW -> GlyphAt10.W
           [] ch = chI -> GlyphAt10.i
           [] ch = chDot -> GlyphAt10.dot
           [] ch = chSpace -> GlyphAt10.sp
           [] ch = chHyphen -> GlyphAt10.hyphen
           [] ch = chParen -> GlyphAt10.paren
           [] ch = chKagi -> GlyphAt10.paren
           [] ch = chKagiClose -> GlyphAt10.paren
           [] ch = chSumi -> GlyphAt10.paren
           [] ch = chKuten -> GlyphAt10.kuten
           [] OTHER -> GlyphAt10.wide

FontAt10 == [height |-> 12, ascent |-> 9]

\* the extents g of a glyph at font size 10, scaled by k = font_size / 10
GlyphScaled(g, k) ==
    [width |-> RatMul(RatInt(g.width), k),
     height |-> RatMul(RatInt(g.height), k),
     x_advance |-> RatMul(RatInt(g.x_advance), k)]

\* cairo_text_extents(cr, ch, &extents) with the font size set to font_size
cairo_text_extents(cr, ch, font_size) ==
    GlyphScaled(GlyphOf(cr, ch), RatDiv(font_size, RatInt(10)))

FontScaled(f, k) ==
    [height |-> RatMul(RatInt(f.height), k), ascent |-> RatMul(RatInt(f.ascent), k)]

\* cairo_font_extents(cr, &font_extents)
cairo_font_extents(cr, font_size) ==
    FontScaled(FontAt10, RatDiv(font_size, RatInt(10)))

\* !(extents.width < 1 || extents.height < 1)
ProbeHasExtent(extents) ==
    ~(RatLt(extents.width, RatOne) \/ RatLt(extents.height, RatOne))

\* the three probes measure one glyph at font size 30
pdf_is_font_japanese(cr) == ProbeHasExtent(cairo_text_extents(cr, chA, RatInt(30)))
pdf_is_font_chinese(cr) == ProbeHasExtent(cairo_text_extents(cr, chChen, RatInt(30)))
pdf_is_font_korean(cr) == ProbeHasExtent(cairo_text_extents(cr, chJak, RatInt(30)))

SMALL_KANA_RATIO == Rat(55, 100)

\* one pass of the for of pdf_get_h_text_width_and_height over a character
\* with these extents: <<text_width, text_height>> after it
HCharStep(acc, extents, font_extents) ==
    <<RatAdd(acc[1], extents.x_advance),
      RatMax(RatMax(acc[2], extents.height), font_extents.height)>>

RECURSIVE HWidthHeightFrom(_, _, _, _, _)
HWidthHeightFrom(cr, chars, font_size, i, acc) ==
    IF i > Len(chars) THEN acc
    ELSE HWidthHeightFrom(cr, chars, font_size, i + 1,
           HCharStep(acc, cairo_text_extents(cr, chars[i], font_size),
                     cairo_font_extents(cr, font_size)))

\* pdf_get_h_text_width_and_height: <<text_width, text_height>>
pdf_get_h_text_width_and_height(cr, chars, font_size) ==
    HWidthHeightFrom(cr, chars, font_size, 1, <<RatZero, RatZero>>)

\* what a character with these extents needs of a column: its width w and
\* the height h it adds
VCharExtent(ch, extents) ==
    IF u8_is_space(ch)
    THEN [w |-> extents.width, h |-> extents.x_advance]
    ELSE IF u8_is_small_kana(ch)
    THEN [w |-> RatMul(extents.width, SMALL_KANA_RATIO),
          h |-> RatMul(extents.height, SMALL_KANA_RATIO)]
    ELSE IF u8_is_hyphen_dash(ch)
    THEN [w |-> extents.height, h |-> extents.width]
    ELSE IF u8_is_paren_type_1(ch) \/ u8_is_paren_type_2(ch)
            \/ u8_is_paren_type_3(ch)
    THEN [w |-> extents.height, h |-> extents.width]
    ELSE [w |-> extents.width, h |-> extents.height]

\* one pass of the for of pdf_get_v_text_width_and_height
VCharStep(acc, e) == <<RatMax(acc[1], e.w), RatAdd(acc[2], e.h)>>

RECURSIVE VWidthHeightFrom(_, _, _, _, _)
VWidthHeightFrom(cr, chars, font_size, i, acc) ==
    IF i > Len(chars) THEN acc
    ELSE VWidthHeightFrom(cr, chars, font_size, i + 1,
           VCharStep(acc, VCharExtent(chars[i],
                                      cairo_text_extents(cr, chars[i], font_size))))

\* pdf_get_v_text_width_and_height: <<text_width, text_height>>
pdf_get_v_text_width_and_height(cr, chars, font_size) ==
    VWidthHeightFrom(cr, chars, font_size, 1, <<RatZero, RatZero>>)


(***************************************************************************)
(* The fit solvers, pdf_scaling_h_text and pdf_scaling_v_text.             *)
(***************************************************************************)
\* a solver without the guard
NoFontGuard(font_size) == FALSE

\* font_size >= 10000
FontGuard(font_size) == RatLe(RatInt(10000), font_size)

\* a chain without the branch that grows the font size
LoopDecideNoGrow(fail, room_x, room_y, threshold) ==
    IF fail THEN "fail"
    ELSE IF RatLt(threshold, Rat(11, 10)) THEN "break"
    ELSE IF room_x THEN "stretch_x"
    ELSE IF room_y THEN "stretch_y"
    ELSE "break"

\* The if / else-if chain of one pass of the for (;;) of either solver:
\* fail is the test of the return false, room_x and room_y are
\* text_width * scale_x < width * fill and text_height * scale_y < height * fill
LoopDecide(fail, room_x, room_y, threshold) ==
    IF fail THEN "fail"
    ELSE IF room_x /\ room_y THEN "grow"
    ELSE IF RatLt(threshold, Rat(11, 10)) THEN "break"
    ELSE IF room_x THEN "stretch_x"
    ELSE IF room_y THEN "stretch_y"
    ELSE "break"

\* a room that shrinks as the target grows
HasRoomInverse(text, scale, target, fill) ==
    RatLt(RatMul(text, scale), RatMul(RatDiv(RatInt(3000), target), fill))

\* text * scale < target * fill
HasRoom(text, scale, target, fill) == RatLt(RatMul(text, scale), RatMul(target, fill))

\* One pass of the for (;;) of pdf_scaling_h_text, m the measured
\* <<text_width, text_height>>.  `junk` is what the read of the local
\* `extents` yields: the function never assigns it, so
\* !extents.width || !extents.height tests an indeterminate value.
HLoopAt(m, width, height, threshold, font_size, scale_x, scale_y, junk) ==
    LoopDecide(FontGuard(font_size) \/ junk = "zero",
               HasRoom(m[1], scale_x, width, Rat(9, 10)),
               HasRoom(m[2], scale_y, height, Rat(9, 10)), threshold)

HLoopBranch(cr, chars, width, height, threshold, font_size, scale_x, scale_y, junk) ==
    HLoopAt(pdf_get_h_text_width_and_height(cr, chars, font_size),
            width, height, threshold, font_size, scale_x, scale_y, junk)

\* a / b > threshold in doubles, for a >= 0, b >= 0, threshold > 0: a
\* division by zero gives +infinity, and 0 / 0 gives NaN, which compares false
RatioOver(a, b, threshold) ==
    IF RatIsZero(b) THEN ~RatIsZero(a) ELSE RatLt(RatMul(threshold, b), a)

\* a corrected scale_x that leaves the number of Characters out
HAspectXNoLen(m, threshold, len, scale_x, scale_y) ==
    IF RatioOver(RatDiv(RatMul(m[1], scale_x), len), RatMul(m[2], scale_y), threshold)
    THEN RatDiv(RatMul(threshold, RatMul(m[2], scale_y)), m[1])
    ELSE scale_x

\* line 770-771: the corrected scale_x
HAspectX(m, threshold, len, scale_x, scale_y) ==
    IF RatioOver(RatDiv(RatMul(m[1], scale_x), len), RatMul(m[2], scale_y), threshold)
    THEN RatDiv(RatMul(RatMul(threshold, RatMul(m[2], scale_y)), len), m[1])
    ELSE scale_x

\* line 772-773, scale_x already corrected: the corrected scale_y
HAspectY(m, threshold, len, scale_x, scale_y) ==
    IF RatioOver(RatMul(m[2], scale_y), RatDiv(RatMul(m[1], scale_x), len), threshold)
    THEN RatDiv(RatMul(threshold, RatDiv(RatMul(m[1], scale_x), len)), m[2])
    ELSE scale_y

HAspectXY(m, threshold, len, sx, scale_y) ==
    <<sx, HAspectY(m, threshold, len, sx, scale_y)>>

\* the aspect correction of pdf_scaling_h_text: <<scale_x, scale_y>>; len is
\* u8_len of the text (line 763), at least 1 for a text that begins with a
\* lead byte
HAspect(cr, chars, len, threshold, font_size, scale_x, scale_y) ==
    HAspectXY(pdf_get_h_text_width_and_height(cr, chars, font_size), threshold,
              RatInt(len),
              HAspectX(pdf_get_h_text_width_and_height(cr, chars, font_size), threshold,
                       RatInt(len), scale_x, scale_y),
              scale_y)

\* One pass of the for (;;) of pdf_scaling_v_text
VLoopAt(m, width, height, threshold, font_size, scale_x, scale_y) ==
    LoopDecide(FontGuard(font_size) \/ RatIsZero(m[1]) \/ RatIsZero(m[2]),
               HasRoom(m[1], scale_x, width, Rat(95, 100)),
               HasRoom(m[2], scale_y, height, Rat(95, 100)), threshold)

VLoopBranch(cr, chars, width, height, threshold, font_size, scale_x, scale_y) ==
    VLoopAt(pdf_get_v_text_width_and_height(cr, chars, font_size),
            width, height, threshold, font_size, scale_x, scale_y)

\* lines 819-822 (text_width, text_height are non-zero here: the loop
\* returned false otherwise): <<scale_x, scale_y>>
VAspectAt(m, threshold, len, scale_x, scale_y) ==
    IF RatioOver(RatMul(m[1], scale_x), RatDiv(RatMul(m[2], scale_y), len), threshold)
    THEN <<RatDiv(RatMul(threshold, RatDiv(RatMul(m[2], scale_y), len)), m[1]), scale_y>>
    ELSE IF RatioOver(RatDiv(RatMul(m[2], scale_y), len), RatMul(m[1], scale_x),
                      threshold)
    THEN <<scale_x, RatDiv(RatMul(RatMul(threshold, RatMul(m[1], scale_x)), len), m[2])>>
    ELSE <<scale_x, scale_y>>

\* the aspect correction of pdf_scaling_v_text
VAspect(cr, chars, threshold, font_size, scale_x, scale_y) ==
    VAspectAt(pdf_get_v_text_width_and_height(cr, chars, font_size), threshold,
              RatInt(Len(chars)), scale_x, scale_y)


(***************************************************************************)
(* u8_locale_map_text: LCMapStringW(LCMAP_FULLWIDTH) on the text, the two  *)
(* spaces protected from it.  Of the model's Characters the mapping        *)
(* changes the one-byte ones from "!" to "~": U+0021..U+007E go to the     *)
(* fullwidth forms U+FF01..U+FF5E.                                         *)
(***************************************************************************)
FullwidthOf(ch) ==
    IF Len(ch) = 1 /\ ch[1] \in 33 .. 126
    THEN <<239, 128 + (((ch[1] + 65248) \div 64) % 64), 128 + ((ch[1] + 65248) % 64)>>
    ELSE ch

\* a mapper that leaves every text as it is
KeepText(str) == str

RECURSIVE MapCharsFrom(_, _, _)
MapCharsFrom(list, i, out) ==
    IF i > Len(list) THEN out
    ELSE MapCharsFrom(list, i + 1, out \o FullwidthOf(list[i]))

u8_locale_map_text(str) == MapCharsFrom(u8_split_chars(str), 1, <<>>)

(***************************************************************************)
(* The drawing loops of pdf_draw_h_text and pdf_draw_v_text.               *)
(***************************************************************************)
\* pdf_get_total_text_width with the font size set to font_size
RECURSIVE TotalWidthFrom(_, _, _, _, _)
TotalWidthFrom(cr, chars, font_size, ich, text_width) ==
    IF ich > Len(chars) THEN text_width
    ELSE TotalWidthFrom(cr, chars, font_size, ich + 1,
           RatAdd(text_width, cairo_text_extents(cr, chars[ich], font_size).x_advance))

pdf_get_total_text_width(cr, utf8_text, font_size) ==
    TotalWidthFrom(cr, u8_split_chars(utf8_text), font_size, 1, RatZero)

\* a gap of the width left over divided by the number of Characters
EachBlankWidthPerChar(width, total_text_width, size) ==
    RatDiv(RatSub(width, total_text_width), RatInt(size))

\* line 1054: (width - total_text_width) / (chars.size() + 1)
EachBlankWidth(width, total_text_width, size) ==
    RatDiv(RatSub(width, total_text_width), RatInt(size + 1))

\* line 1064: y0 + (height - font_extents.height * scale_y) / 2
HLineY(y0, height, font_extents, scale_y) ==
    RatAdd(y0, RatDiv(RatSub(height, RatMul(font_extents.height, scale_y)), RatInt(2)))

\* the for of lines 1055-1068 from chars[ich] on, x being advanced by the gap
\* already: the calls of pdf_draw_h_char
RECURSIVE HDrawFrom(_, _, _, _, _, _, _, _, _)
HDrawFrom(cr, chars, font_size, scale_x, each_blank_width, y, x, ich, out) ==
    IF ich > Len(chars) THEN out
    ELSE HDrawFrom(cr, chars, font_size, scale_x, each_blank_width, y,
           RatAdd(RatAdd(x, RatMul(cairo_text_extents(cr, chars[ich], font_size).x_advance,
                                   scale_x)),
                  each_blank_width),
           ich + 1, Append(out, [ch |-> chars[ich], x |-> x, y |-> y]))

\* a y that is advanced by the height of the glyph after every Character
VDrawAdvanceByHeight(ch, extents, scale_y) == RatMul(extents.height, scale_y)

\* lines 1146-1155: what y is advanced by after a Character
VDrawAdvance(ch, extents, scale_y) ==
    IF u8_is_space(ch) THEN RatMul(extents.x_advance, scale_y)
    ELSE IF u8_is_small_kana(ch)
    THEN RatMul(RatMul(extents.height, scale_y), SMALL_KANA_RATIO)
    ELSE IF u8_is_hyphen_dash(ch) THEN RatMul(extents.width, scale_y)
    ELSE IF u8_is_paren_type_1(ch) \/ u8_is_paren_type_2(ch) \/ u8_is_paren_type_3(ch)
    THEN RatMul(extents.width, scale_y)
    ELSE RatMul(extents.height, scale_y)

\* the for of lines 1129-1156 from chars[ich] on, y being advanced by the gap
\* already: the calls of pdf_draw_v_char
RECURSIVE VDrawFrom(_, _, _, _, _, _, _, _, _)
VDrawFrom(cr, chars, font_size, scale_y, each_blank_height, x, y, ich, out) ==
    IF ich > Len(chars) THEN out
    ELSE VDrawFrom(cr, chars, font_size, scale_y, each_blank_height, x,
           RatAdd(RatAdd(y, VDrawAdvance(chars[ich],
                                         cairo_text_extents(cr, chars[ich], font_size),
                                         scale_y)),
                  each_blank_height),
           ich + 1, Append(out, [ch |-> chars[ich], x |-> x, y |-> y]))

(***************************************************************************)
(* The command line: _tcstod, std::isnormal and the option names.  A       *)
(* double is a rational, or a mantissa over zero: 1/0 is an infinity and   *)
(* 0/0 is a NaN.                                                           *)
(***************************************************************************)
DoubleNaN == [neg |-> FALSE, n |-> <<>>, d |-> <<>>, p |-> NoPow]
DoubleInf == [neg |-> FALSE, n |-> <<1>>, d |-> <<>>, p |-> NoPow]

\* std::isnormal: neither zero nor infinite nor NaN (the texts of the model
\* have no subnormal value)
isnormal(x) == x.d # <<>> /\ x.n # <<>>

\* the decimal digits of str from i on: their value, their number and the
\* index after them
RECURSIVE DigitsFrom(_, _, _, _)
DigitsFrom(str, i, val, cnt) ==
    IF i <= Len(str) /\ str[i] \in 48 .. 57
    THEN DigitsFrom(str, i + 1, val * 10 + (str[i] - 48), cnt + 1)
    ELSE [val |-> val, cnt |-> cnt, next |-> i]

RECURSIVE TenTo(_)
TenTo(k) == IF k = 0 THEN 1 ELSE 10 * TenTo(k - 1)

\* word is in str at i
WordAt(str, i, word) ==
    i + Len(word) - 1 <= Len(str) /\ SubSeq(str, i, i + Len(word) - 1) = word

\* the digits after a decimal point at i, if there is one
FractionFrom(str, i) ==
    IF i <= Len(str) /\ str[i] = 46 THEN DigitsFrom(str, i + 1, 0, 0)
    ELSE [val |-> 0, cnt |-> 0, next |-> i]

\* the number whose integer digits are ip and whose fraction digits are fp;
\* without a digit nothing is converted and endptr is the string itself
TcstodNumber(ip, fp, neg) ==
    IF ip.cnt + fp.cnt = 0 THEN [value |-> RatZero, endptr |-> 1]
    ELSE [value |-> IF neg
                    THEN RatNeg(Rat(ip.val * TenTo(fp.cnt) + fp.val, TenTo(fp.cnt)))
                    ELSE Rat(ip.val * TenTo(fp.cnt) + fp.val, TenTo(fp.cnt)),
          endptr |-> fp.next]

\* strtod after the sign, on a text without white space and exponent
TcstodFrom(str, i, neg) ==
    IF WordAt(str, i, <<110, 97, 110>>)                     \* nan
    THEN [value |-> DoubleNaN, endptr |-> i + 3]
    ELSE IF WordAt(str, i, <<105, 110, 102>>)               \* inf
    THEN [value |-> [DoubleInf EXCEPT !.neg = neg], endptr |-> i + 3]
    ELSE TcstodNumber(DigitsFrom(str, i, 0, 0),
                      FractionFrom(str, DigitsFrom(str, i, 0, 0).next), neg)

\* _tcstod(str, &endptr): the value, and the index of the first byte that
\* was not converted (Len(str) + 1 is the terminating NUL)
tcstod(str) ==
    IF str # <<>> /\ str[1] = 45 THEN TcstodFrom(str, 2, TRUE)     \* -
    ELSE IF str # <<>> /\ str[1] = 43 THEN TcstodFrom(str, 2, FALSE)  \* +
    ELSE TcstodFrom(str, 1, FALSE)

\* *endptr
EndptrByte(str, endptr) == IF endptr > Len(str) THEN 0 ELSE str[endptr]

\* line 1221: *endptr || !std::isnormal(g_margin) || g_margin <= 0
MarginRejected(str, parsed) ==
    \/ EndptrByte(str, parsed.endptr) # 0
    \/ ~isnormal(parsed.value)
    \/ RatLe(parsed.value, RatZero)

\* line 1230: *endptr || !std::isnormal(g_margin) || g_margin < 1.0
ThresholdRejected(str, parsed, margin) ==
    \/ EndptrByte(str, parsed.endptr) # 0
    \/ ~isnormal(margin)
    \/ RatLt(margin, RatOne)

OptVertical == <<45, 45, 118, 101, 114, 116, 105, 99, 97, 108>>
OptMargin == <<45, 45, 109, 97, 114, 103, 105, 110>>
OptThreshold == <<45, 45, 116, 104, 114, 101, 115, 104, 111, 108, 100>>

(***************************************************************************)
(* State.                                                                  *)
(***************************************************************************)
VARIABLES
    \* the process
    cr,             \* the cairo context: the selected font face
    g_vertical,     \* --vertical
    g_threshold,    \* --threshold
    g_margin,       \* --margin
    argv, iarg,     \* the command line after the program name, and the
                    \* argument pdfplaca_parse_cmdline is at
    pc,             \* where the program is
    \* one call of pdf_draw_h_text / pdf_draw_v_text, or of a fit solver alone
    caller,         \* "solver": the solver is called by itself
    text,           \* the Row / Column to draw
    x0, y0, width, height,  \* the target box: its origin and its size
    fit_text,       \* utf8_text of the fit solver
    chars,          \* its Characters
    font_size, scale_x, scale_y,
    steps,          \* passes of the search loop so far, by kind
    each_blank,     \* each_blank_height of pdf_draw_v_text
    shrinks,        \* passes of its while loop so far
    band_drawn,     \* the Characters this call has drawn, in order, and where
    \* a caller that fits one Row into two boxes, one after the other
    solve_no, first_fit, second_box,
    \* one call of pdfplaca_draw_page
    utf8_page,      \* its utf8_text
    rows, iRow,
    pos,            \* y of pdfplaca_draw_h_page, x of pdfplaca_draw_v_page
    row_extent,     \* row_height, row_width
    geometry,       \* page_width ... margin
    fills,          \* the rectangles filled so far
    texts,          \* the calls of pdf_draw_h_text / pdf_draw_v_text so far
    \* pdfplaca_do_it
    out_text, font_name,    \* its arguments
    utf8_text, utf8_font_name,
    g_letters_per_page,     \* --letters-per-page
    doc_chars,              \* chars of the letters-per-page branch
    num_page, iPage, iChar,
    pages,          \* the calls of pdfplaca_draw_page so far: their utf8_text
    \* one call of a string function
    fn_arg, fn_result

cmdVars == <<g_margin, argv, iarg>>
envVars == <<cr, g_vertical, g_threshold, cmdVars, beyond>>
argVars == <<caller, text, x0, y0, width, height>>
fitVars == <<font_size, scale_x, scale_y>>
gapVars == <<each_blank, shrinks>>
monoVars == <<solve_no, first_fit, second_box>>
pageVars == <<utf8_page, rows, iRow, pos, row_extent, geometry, fills, texts>>
docVars == <<out_text, font_name, utf8_text, utf8_font_name, g_letters_per_page,
             doc_chars, num_page, iPage, iChar, pages>>
fnVars == <<fn_arg, fn_result>>
restVars == <<monoVars, pageVars, docVars, fnVars>>
bandVars == <<argVars, fit_text, chars, fitVars, steps, gapVars, band_drawn>>
vars == <<envVars, pc, bandVars, restVars>>

\* bounds of the model: a search loop that stretches a scale without end, and
\* the gap loop when it shrinks without end, are cut off after this many passes
MaxStretch == 100
MaxShrink == 40

NoSteps == [grow |-> 0, stretch_x |-> 0, stretch_y |-> 0]

(***************************************************************************)
(* pdf_scaling_h_text and pdf_scaling_v_text                               *)
(***************************************************************************)
\* lines 728-736 (781-789): the outputs are set first, an empty text fails
ScalingEnter ==
    /\ pc = "scaling"
    /\ scale_x' = RatOne
    /\ scale_y' = RatOne
    /\ font_size' = RatInt(10)
    /\ chars' = u8_split_chars(fit_text)
    /\ pc' = IF fit_text = <<>> THEN "fit_false"
             ELSE IF g_vertical THEN "v_loop" ELSE "h_loop"
    /\ UNCHANGED <<envVars, argVars, fit_text, steps, gapVars, band_drawn, restVars>>

LoopStep(branch, after_break) ==
    /\ branch = "stretch_x" => steps.stretch_x < MaxStretch
    /\ branch = "stretch_y" => steps.stretch_y < MaxStretch
    /\ font_size' = IF branch = "grow"
                    THEN RatMul(font_size, IF g_vertical THEN Rat1_05 ELSE Rat1_1)
                    ELSE font_size
    /\ scale_x' = IF branch = "stretch_x"
                  THEN RatMul(scale_x, IF g_vertical THEN Rat1_05 ELSE Rat1_1)
                  ELSE scale_x
    /\ scale_y' = IF branch = "stretch_y"
                  THEN RatMul(scale_y, IF g_vertical THEN Rat1_05 ELSE Rat1_1)
                  ELSE scale_y
    /\ pc' = IF branch = "fail" THEN "fit_false"
             ELSE IF branch = "break" THEN after_break
             ELSE pc
    /\ steps' = IF branch \in {"grow", "stretch_x", "stretch_y"}
                THEN [steps EXCEPT ![branch] = @ + 1]
                ELSE steps
    /\ UNCHANGED <<envVars, argVars, fit_text, chars, gapVars, band_drawn, restVars>>

\* lines 741-760
ScalingHLoop ==
    /\ pc = "h_loop"
    /\ \E junk \in {"zero", "nonzero"} :
         \E branch \in {HLoopBranch(cr, chars, width, height, g_threshold, font_size,
                                    scale_x, scale_y, junk)} :
           LoopStep(branch, "h_aspect")

\* lines 762-775
ScalingHAspect ==
    /\ pc = "h_aspect"
    /\ \E s \in {HAspect(cr, chars, u8_len(fit_text), g_threshold, font_size, scale_x, scale_y)} :
         scale_x' = s[1] /\ scale_y' = s[2]
    /\ pc' = "fit_true"
    /\ UNCHANGED <<envVars, argVars, fit_text, chars, font_size, steps, gapVars,
                   band_drawn, restVars>>

\* lines 792-811
ScalingVLoop ==
    /\ pc = "v_loop"
    /\ \E branch \in {VLoopBranch(cr, chars, width, height, g_threshold, font_size,
                                  scale_x, scale_y)} :
         LoopStep(branch, "v_aspect")

\* lines 813-824
ScalingVAspect ==
    /\ pc = "v_aspect"
    /\ \E s \in {VAspect(cr, chars, g_threshold, font_size, scale_x, scale_y)} :
         scale_x' = s[1] /\ scale_y' = s[2]
    /\ pc' = "fit_true"
    /\ UNCHANGED <<envVars, argVars, fit_text, chars, font_size, steps, gapVars,
                   band_drawn, restVars>>

(***************************************************************************)
(* pdf_draw_h_text and pdf_draw_v_text around the solver                   *)
(***************************************************************************)
\* lines 1035-1041 and 1090-1103, up to the call of the solver
DrawEnter ==
    /\ pc = "draw_text"
    /\ pc' = IF text = <<>> THEN "draw_false" ELSE "scaling"
    /\ fit_text' = IF text = <<>> THEN fit_text
                   ELSE IF g_vertical /\ (pdf_is_font_japanese(cr)
                                          \/ pdf_is_font_chinese(cr)
                                          \/ pdf_is_font_korean(cr))
                   THEN u8_locale_map_text(text)
                   ELSE text
    /\ UNCHANGED <<envVars, argVars, chars, fitVars, steps, gapVars, band_drawn,
                   restVars>>

\* lines 1040-1041 and 1102-1103: the solver has failed
DrawFitFailed ==
    /\ pc = "fit_false"
    /\ caller # "solver"
    /\ pc' = "draw_false"
    /\ UNCHANGED <<envVars, argVars, fit_text, chars, fitVars, steps, gapVars,
                   band_drawn, restVars>>

\* a text routine that draws its Characters before the aspect correction of
\* the solver has run
DrawHCharsEarly ==
    /\ pc = "h_aspect"
    /\ caller # "solver"
    /\ ~g_vertical
    /\ \E each_blank_width \in
           {EachBlankWidth(width,
                           RatMul(pdf_get_total_text_width(cr, text, font_size), scale_x),
                           Len(u8_split_chars(text)))} :
         band_drawn' = HDrawFrom(cr, u8_split_chars(text), font_size, scale_x,
                                 each_blank_width,
                                 HLineY(y0, height, cairo_font_extents(cr, font_size),
                                        scale_y),
                                 RatAdd(x0, each_blank_width), 1, <<>>)
    /\ pc' = "drawn"
    /\ UNCHANGED <<envVars, argVars, fit_text, chars, fitVars, steps, gapVars,
                   restVars>>

\* lines 1043-1070: every Character is drawn, left to right
DrawHChars ==
    /\ pc = "fit_true"
    /\ caller # "solver"
    /\ ~g_vertical
    /\ \E each_blank_width \in
           {EachBlankWidth(width,
                           RatMul(pdf_get_total_text_width(cr, text, font_size), scale_x),
                           Len(u8_split_chars(text)))} :
         band_drawn' = HDrawFrom(cr, u8_split_chars(text), font_size, scale_x,
                                 each_blank_width,
                                 HLineY(y0, height, cairo_font_extents(cr, font_size),
                                        scale_y),
                                 RatAdd(x0, each_blank_width), 1, <<>>)
    /\ pc' = "drawn"
    /\ UNCHANGED <<envVars, argVars, fit_text, chars, fitVars, steps, gapVars,
                   restVars>>

\* (height - text_height) / (chars.size() + 1), text_height being the measured
\* m[2] times scale_y
EachBlankHeight(m, height_, scale_y_, len) ==
    RatDiv(RatSub(height_, RatMul(m[2], scale_y_)), RatInt(len + 1))

\* each_blank_height < font_size / 5
GapBelowFloor(each_blank_height, font_size_) ==
    RatLt(each_blank_height, RatDiv(font_size_, RatInt(5)))

\* lines 1105-1116
DrawVGapEnter ==
    /\ pc = "fit_true"
    /\ caller # "solver"
    /\ g_vertical
    /\ each_blank' = EachBlankHeight(pdf_get_v_text_width_and_height(cr, chars, font_size),
                                     height, scale_y, Len(chars))
    /\ pc' = "v_gap"
    /\ UNCHANGED <<envVars, argVars, fit_text, chars, fitVars, steps, shrinks,
                   band_drawn, restVars>>

\* lines 1117-1126: one pass of the while
DrawVGapShrink ==
    /\ pc = "v_gap"
    /\ GapBelowFloor(each_blank, font_size)
    /\ shrinks < MaxShrink
    /\ scale_x' = RatMul(scale_x, Rat0_95)
    /\ scale_y' = RatMul(scale_y, Rat0_95)
    /\ each_blank' = EachBlankHeight(pdf_get_v_text_width_and_height(cr, chars, font_size),
                                     height, scale_y', Len(chars))
    /\ shrinks' = shrinks + 1
    /\ UNCHANGED <<envVars, pc, argVars, fit_text, chars, font_size, steps,
                   band_drawn, restVars>>

\* lines 1128-1158: every Character is drawn, top to bottom
DrawVChars ==
    /\ pc = "v_gap"
    /\ ~GapBelowFloor(each_blank, font_size)
    /\ band_drawn' = VDrawFrom(cr, chars, font_size, scale_y, each_blank,
                               RatAdd(x0, RatDiv(width, RatInt(2))),
                               RatAdd(y0, each_blank), 1, <<>>)
    /\ pc' = "drawn"
    /\ UNCHANGED <<envVars, argVars, fit_text, chars, fitVars, steps, gapVars,
                   restVars>>

(***************************************************************************)
(* Inputs of the model.                                                    *)
(***************************************************************************)
\* <<font face, Row / Column>>
FitCases ==
    {<<"Arial", <<>> >>, <<"Arial", chI>>, <<"Arial", chW \o chI>>,
     <<"Arial", chZW>>, <<"Arial", chDot>>,
     <<"Arial", chSpace \o chW \o chHyphen>>,
     <<"Mincho", chA \o chSmallTsu \o chKuten>>, <<"Mincho", chParen \o chI>>,
     <<"Mincho", chSumi \o chKagi \o chKagiClose>>}
\* the Rows a solver is also called with by itself
SolverRows == {<<>>, chI}
FitBoxes == {<<6, 6>>, <<40, 300>>, <<300, 40>>, <<120, 6>>, <<15000, 15000>>}
Thresholds == {Rat(1, 1), Rat(3, 2)}
\* x0, y0 of a call of pdf_draw_h_text / pdf_draw_v_text by itself
FitOrigin == <<8, 5>>

NoFit == [ok |-> FALSE, font_size |-> RatZero]

MonoIdle ==
    /\ solve_no = 0
    /\ first_fit = NoFit
    /\ second_box = <<0, 0>>

PageIdle ==
    /\ utf8_page = <<>>
    /\ rows = <<>>
    /\ iRow = 0
    /\ pos = RatZero
    /\ row_extent = RatZero
    /\ geometry = [page_width |-> 0, page_height |-> 0, printable_width |-> 0,
                   printable_height |-> 0, margin |-> 0]
    /\ fills = <<>>
    /\ texts = <<>>

DocIdle ==
    /\ out_text = <<>>
    /\ font_name = ""
    /\ utf8_text = <<>>
    /\ utf8_font_name = ""
    /\ g_letters_per_page = -1
    /\ doc_chars = <<>>
    /\ num_page = 0
    /\ iPage = 0
    /\ iChar = 0
    /\ pages = <<>>

FnIdle ==
    /\ fn_arg = <<>>
    /\ fn_result = <<>>

\* what a read behind a terminating NUL can yield: a byte whose low six
\* bits are clear, and one whose low six bits are set
BeyondBytes == {0, 255}

\* the globals as they are initialized (lines 96, 104), no command line
CmdIdle ==
    /\ g_margin = RatInt(8)
    /\ argv = <<>>
    /\ iarg = 0

CallIdle ==
    /\ chars = <<>>
    /\ font_size = RatZero
    /\ scale_x = RatZero
    /\ scale_y = RatZero
    /\ steps = NoSteps
    /\ each_blank = RatZero
    /\ shrinks = 0
    /\ band_drawn = <<>>

\* one call of a fit solver, by itself or inside one call of pdf_draw_h_text /
\* pdf_draw_v_text
InitFit ==
    /\ \E c \in FitCases : cr = c[1] /\ text = c[2]
    /\ g_vertical \in BOOLEAN
    /\ g_threshold \in Thresholds
    /\ caller \in IF text \in SolverRows THEN {"solver", "draw"} ELSE {"draw"}
    /\ x0 = RatInt(FitOrigin[1])
    /\ y0 = RatInt(FitOrigin[2])
    /\ \E b \in FitBoxes : width = RatInt(b[1]) /\ height = RatInt(b[2])
    /\ CallIdle
    /\ CmdIdle
    /\ fit_text = IF caller = "solver" THEN text ELSE <<>>
    /\ pc = IF caller = "solver" THEN "scaling" ELSE "draw_text"
    /\ MonoIdle
    /\ PageIdle
    /\ DocIdle
    /\ FnIdle
    /\ beyond = 0

NextFit ==
    \/ ScalingEnter
    \/ ScalingHLoop
    \/ ScalingHAspect
    \/ ScalingVLoop
    \/ ScalingVAspect
    \/ DrawEnter
    \/ DrawFitFailed
    \/ DrawHChars
    \/ DrawVGapEnter
    \/ DrawVGapShrink
    \/ DrawVChars

SpecFit == InitFit /\ [][NextFit]_vars

(***************************************************************************)
(* A fit solver called twice for one Row, the second box at least as wide  *)
(* and as high as the first.                                               *)
(***************************************************************************)
MonoRows == {chI, chSpace \o chW \o chHyphen}
MonoBoxes == {<<6, 6>>, <<6, 60>>, <<60, 6>>, <<60, 60>>}

InitMono ==
    /\ cr = "Arial"
    /\ g_vertical \in BOOLEAN
    /\ g_threshold \in Thresholds
    /\ caller = "solver"
    /\ text \in MonoRows
    /\ fit_text = text
    /\ x0 = RatZero
    /\ y0 = RatZero
    /\ \E b \in MonoBoxes : width = RatInt(b[1]) /\ height = RatInt(b[2])
    /\ CallIdle
    /\ CmdIdle
    /\ pc = "scaling"
    /\ solve_no = 1
    /\ first_fit = NoFit
    /\ second_box \in {b \in MonoBoxes : /\ RatLe(width, RatInt(b[1]))
                                         /\ RatLe(height, RatInt(b[2]))}
    /\ PageIdle
    /\ DocIdle
    /\ FnIdle
    /\ beyond = 0

\* the first call has returned: its result is kept and the second call made
MonoSecondSolve ==
    /\ solve_no = 1
    /\ pc \in {"fit_true", "fit_false"}
    /\ first_fit' = [ok |-> pc = "fit_true", font_size |-> font_size]
    /\ width' = RatInt(second_box[1])
    /\ height' = RatInt(second_box[2])
    /\ solve_no' = 2
    /\ steps' = NoSteps
    /\ pc' = "scaling"
    /\ UNCHANGED <<envVars, caller, text, x0, y0, fit_text, chars, fitVars, gapVars,
                   band_drawn, second_box, pageVars, docVars, fnVars>>

NextMono ==
    \/ ScalingEnter
    \/ ScalingHLoop
    \/ ScalingHAspect
    \/ ScalingVLoop
    \/ ScalingVAspect
    \/ MonoSecondSolve

SpecMono == InitMono /\ [][NextMono]_vars

(***************************************************************************)
(* pdfplaca_draw_page, pdfplaca_draw_h_page and pdfplaca_draw_v_page       *)
(***************************************************************************)
\* row_height and row_width: (extent - margin * (rows.size() + 1)) / rows.size()
RowExtent(extent, margin, n) ==
    RatDiv(RatSub(extent, RatMul(margin, RatInt(n + 1))), RatInt(n))

\* lines 1361-1368 and 1287-1288 (1322-1323)
PageEnter ==
    /\ pc = "draw_page"
    /\ rows' = u8_split_by_newlines(utf8_page)
    /\ iRow' = 0
    /\ pos' = IF g_vertical THEN RatZero ELSE RatInt(geometry.margin)
    /\ row_extent' = RowExtent(RatInt(IF g_vertical THEN geometry.page_width
                                      ELSE geometry.page_height),
                               RatInt(geometry.margin), Len(rows'))
    /\ pc' = "page_row"
    /\ UNCHANGED <<envVars, bandVars, utf8_page, geometry, fills, texts, monoVars,
                   docVars, fnVars>>

\* the rectangle of the band that starts at y (horizontal), or after the
\* margin at x (vertical): cairo_rectangle's x, y, width, height
BandBox(g, vertical, at, extent) ==
    IF vertical
    THEN [x |-> RatSub(RatInt(2 * g.margin + g.printable_width), RatAdd(at, extent)),
          y |-> RatInt(g.margin), w |-> extent, h |-> RatInt(g.printable_height)]
    ELSE [x |-> RatInt(g.margin), y |-> at, w |-> RatInt(g.printable_width),
          h |-> extent]

\* x += margin of pdfplaca_draw_v_page
BandAt(g, vertical, at) == IF vertical THEN RatAdd(at, RatInt(g.margin)) ELSE at

\* lines 1291-1308 (1326-1347): the band is filled and the text routine called
PageRow ==
    /\ pc = "page_row"
    /\ iRow < Len(rows)
    /\ pos' = BandAt(geometry, g_vertical, pos)
    /\ \E box \in {BandBox(geometry, g_vertical, pos', row_extent)} :
         /\ fills' = Append(fills, box)
         /\ x0' = box.x
         /\ y0' = box.y
         /\ width' = box.w
         /\ height' = box.h
    /\ text' = rows[iRow + 1]
    /\ fit_text' = <<>>
    /\ chars' = <<>>
    /\ font_size' = RatZero
    /\ scale_x' = RatZero
    /\ scale_y' = RatZero
    /\ steps' = NoSteps
    /\ each_blank' = RatZero
    /\ shrinks' = 0
    /\ band_drawn' = <<>>
    /\ pc' = "draw_text"
    /\ UNCHANGED <<envVars, caller, utf8_page, rows, iRow, row_extent, geometry,
                   texts, monoVars, docVars, fnVars>>

\* y += row_height; y += margin of pdfplaca_draw_h_page, x += row_width of
\* pdfplaca_draw_v_page
PosAfterBand(g, vertical, at, extent) ==
    IF vertical THEN RatAdd(at, extent)
    ELSE RatAdd(RatAdd(at, extent), RatInt(g.margin))

\* a page that is given up when the text routine returns false
PageAdvanceOrAbort ==
    /\ pc \in {"draw_false", "drawn"}
    /\ caller = "page"
    /\ texts' = Append(texts, [text |-> text, width |-> width, height |-> height,
                               returned |-> pc = "drawn", drawn |-> band_drawn])
    /\ pos' = PosAfterBand(geometry, g_vertical, pos, row_extent)
    /\ iRow' = iRow + 1
    /\ pc' = IF pc = "draw_false" THEN "page_done" ELSE "page_row"
    /\ UNCHANGED <<envVars, bandVars, utf8_page, rows, row_extent, geometry, fills,
                   monoVars, docVars, fnVars>>

\* lines 1309-1314 (1348-1352): the text routine has returned, its result is
\* not looked at
PageAdvance ==
    /\ pc \in {"draw_false", "drawn"}
    /\ caller = "page"
    /\ texts' = Append(texts, [text |-> text, width |-> width, height |-> height,
                               returned |-> pc = "drawn", drawn |-> band_drawn])
    /\ pos' = PosAfterBand(geometry, g_vertical, pos, row_extent)
    /\ iRow' = iRow + 1
    /\ pc' = "page_row"
    /\ UNCHANGED <<envVars, bandVars, utf8_page, rows, row_extent, geometry, fills,
                   monoVars, docVars, fnVars>>

\* line 1316 (1355)
PageReturn ==
    /\ pc = "page_row"
    /\ iRow = Len(rows)
    /\ pc' = "page_done"
    /\ UNCHANGED <<envVars, bandVars, pageVars, monoVars, docVars, fnVars>>

LF == <<10>>
\* a text of this many rows has bands of negative extent on the smaller page
ManyRows == 24
EmptyRows == [k \in 1 .. ManyRows - 1 |-> 10]
PageTexts ==
    {chI \o LF \o chW,
     LF \o chI,
     chZW \o LF \o chI \o chW,
     chI \o LF \o LF \o chDot,
     chW,
     EmptyRows}
PageGeometries ==
    {[page_width |-> 100, page_height |-> 80, margin |-> 8,
      printable_width |-> 84, printable_height |-> 64],
     [page_width |-> 15000, page_height |-> 15000, margin |-> 8,
      printable_width |-> 14984, printable_height |-> 14984]}

InitPage ==
    /\ cr = "Arial"
    /\ g_vertical \in BOOLEAN
    /\ g_threshold \in Thresholds
    /\ caller = "page"
    /\ text = <<>>
    /\ x0 = RatZero
    /\ y0 = RatZero
    /\ width = RatZero
    /\ height = RatZero
    /\ fit_text = <<>>
    /\ CallIdle
    /\ CmdIdle
    /\ MonoIdle
    /\ utf8_page \in PageTexts
    /\ geometry \in PageGeometries
    /\ rows = <<>>
    /\ iRow = 0
    /\ pos = RatZero
    /\ row_extent = RatZero
    /\ fills = <<>>
    /\ texts = <<>>
    /\ pc = "draw_page"
    /\ DocIdle
    /\ FnIdle
    /\ beyond = 0

NextPage ==
    \/ PageEnter
    \/ PageRow
    \/ PageAdvance
    \/ PageReturn
    \/ DrawEnter
    \/ ScalingEnter
    \/ ScalingHLoop
    \/ ScalingHAspect
    \/ ScalingVLoop
    \/ ScalingVAspect
    \/ DrawFitFailed
    \/ DrawHChars
    \/ DrawVGapEnter
    \/ DrawVGapShrink
    \/ DrawVChars

SpecPage == InitPage /\ [][NextPage]_vars

(***************************************************************************)
(* pdfplaca_do_it: the text and the font from the arguments to the calls   *)
(* of pdfplaca_draw_page.                                                  *)
(***************************************************************************)
NotJapaneseFont ==
    <<32, 32, 32, 69, 114, 114, 111, 114, 58, 32, 32, 32, 10, 78, 111, 116, 32,
      74, 97, 112, 97, 110, 101, 115, 101, 32, 102, 111, 110, 116>>
NotChineseFont ==
    <<32, 32, 32, 69, 114, 114, 111, 114, 58, 32, 32, 32, 10, 78, 111, 116, 32,
      67, 104, 105, 110, 101, 115, 101, 32, 102, 111, 110, 116>>
NotKoreanFont ==
    <<32, 32, 32, 69, 114, 114, 111, 114, 58, 32, 32, 32, 10, 78, 111, 116, 32,
      75, 111, 114, 101, 97, 110, 32, 102, 111, 110, 116>>

Fallback(message) == [text |-> message, font |-> "Arial", vertical |-> FALSE]

\* a check that asks every detector, whatever the ones before it said
ScriptCheckEvery(str, face, vertical) ==
    IF u8_is_japanese_text(str) # 0 /\ ~pdf_is_font_japanese(face)
    THEN Fallback(NotJapaneseFont)
    ELSE IF u8_is_chinese_text(str) # 0 /\ ~pdf_is_font_chinese(face)
    THEN Fallback(NotChineseFont)
    ELSE IF u8_is_korean_text(str) # 0 /\ ~pdf_is_font_korean(face)
    THEN Fallback(NotKoreanFont)
    ELSE [text |-> str, font |-> face, vertical |-> vertical]

\* lines 1426-1452, face being the font selected at line 1423:
\* utf8_text, utf8_font_name and g_vertical after the chain
ScriptCheck(str, face, vertical) ==
    IF u8_is_japanese_text(str) # 0
    THEN IF ~pdf_is_font_japanese(face) THEN Fallback(NotJapaneseFont)
         ELSE [text |-> str, font |-> face, vertical |-> vertical]
    ELSE IF u8_is_chinese_text(str) # 0
    THEN IF ~pdf_is_font_chinese(face) THEN Fallback(NotChineseFont)
         ELSE [text |-> str, font |-> face, vertical |-> vertical]
    ELSE IF u8_is_korean_text(str) # 0
    THEN IF ~pdf_is_font_korean(face) THEN Fallback(NotKoreanFont)
         ELSE [text |-> str, font |-> face, vertical |-> vertical]
    ELSE [text |-> str, font |-> face, vertical |-> vertical]

\* lines 1409-1453
DoItSelectFont ==
    /\ pc = "do_it"
    /\ \E c \in {ScriptCheck(out_text, font_name, g_vertical)} :
         /\ utf8_text' = c.text
         /\ utf8_font_name' = c.font
         /\ g_vertical' = c.vertical
         /\ cr' = c.font
    /\ pc' = "do_unescape"
    /\ UNCHANGED <<g_threshold, cmdVars, beyond, bandVars, monoVars, pageVars, out_text, font_name,
                   g_letters_per_page, doc_chars, num_page, iPage, iChar, pages,
                   fnVars>>

\* lines 1456-1459, and the branch taken at 1472 / 1480
DoItUnescape ==
    /\ pc = "do_unescape"
    /\ utf8_text' = mstr_replace_all(mstr_unescape(utf8_text), <<9>>, <<32, 32, 32>>)
    /\ pc' = IF g_letters_per_page = -1 THEN "do_one_page"
             ELSE IF g_letters_per_page > 0 THEN "do_strip"
             ELSE "do_done"
    /\ UNCHANGED <<envVars, bandVars, monoVars, pageVars, out_text, font_name,
                   utf8_font_name, g_letters_per_page, doc_chars, num_page, iPage,
                   iChar, pages, fnVars>>

\* lines 1474-1478
DoItOnePage ==
    /\ pc = "do_one_page"
    /\ pages' = Append(pages, utf8_text)
    /\ pc' = "do_done"
    /\ UNCHANGED <<envVars, bandVars, monoVars, pageVars, out_text, font_name,
                   utf8_text, utf8_font_name, g_letters_per_page, doc_chars,
                   num_page, iPage, iChar, fnVars>>

\* lines 1483-1487
DeleteSpaces(str) ==
    mstr_replace_all(
        mstr_replace_all(
            mstr_replace_all(
                mstr_replace_all(mstr_replace_all(str, <<32>>, <<>>), <<9>>, <<>>),
                <<13>>, <<>>),
            <<10>>, <<>>),
        <<227, 128, 128>>, <<>>)

\* a page count that leaves the Characters after the last full page out
NumPageFloor(size, letters_per_page) == size \div letters_per_page

\* line 1494
NumPage(size, letters_per_page) == (size + letters_per_page - 1) \div letters_per_page

\* lines 1482-1494
DoItStrip ==
    /\ pc = "do_strip"
    /\ utf8_text' = DeleteSpaces(utf8_text)
    /\ doc_chars' = u8_split_chars(utf8_text')
    /\ num_page' = NumPage(Len(doc_chars'), g_letters_per_page)
    /\ iPage' = 0
    /\ iChar' = 0
    /\ pc' = "do_pages"
    /\ UNCHANGED <<envVars, bandVars, monoVars, pageVars, out_text, font_name,
                   utf8_font_name, g_letters_per_page, pages, fnVars>>

\* the for of lines 1502-1506 from ich to limit: str
RECURSIVE PageStrFrom(_, _, _, _)
PageStrFrom(list, ich, limit, str) ==
    IF ~(ich < limit) THEN str
    ELSE PageStrFrom(list, ich + 1, limit,
                     IF ich < Len(list) THEN str \o list[ich + 1] ELSE str)

\* lines 1495-1512: one pass of the for over the pages
DoItPage ==
    /\ pc = "do_pages"
    /\ iPage < num_page
    /\ pages' = Append(pages, PageStrFrom(doc_chars, iChar,
                                          (iPage + 1) * g_letters_per_page, <<>>))
    /\ iChar' = MaxOf(iChar, (iPage + 1) * g_letters_per_page)
    /\ iPage' = iPage + 1
    /\ UNCHANGED <<envVars, pc, bandVars, monoVars, pageVars, out_text, font_name,
                   utf8_text, utf8_font_name, g_letters_per_page, doc_chars,
                   num_page, fnVars>>

\* lines 1495 and 1515-1520
DoItReturn ==
    /\ pc = "do_pages"
    /\ ~(iPage < num_page)
    /\ pc' = "do_done"
    /\ UNCHANGED <<envVars, bandVars, monoVars, pageVars, docVars, fnVars>>

DocTexts ==
    {<<>>,
     chW \o chI,
     chW \o <<92, 116>> \o chI \o <<32>> \o chDot,      \* W \t i space .
     chA \o <<227, 128, 128>> \o chW \o <<10>> \o chI,  \* a U+3000 W newline i
     chW \o chI \o chDot \o chW \o chI,
     chKan,
     chChen \o chI \o chW,
     chJak \o <<9>> \o chI,
     chRadical \o chI,
     chW \o <<92, 102>> \o chI \o <<13>>,                \* W \f i CR
     <<32, 10>>}
DocFonts == {"Arial", "Mincho", "SimSun", "Batang", "Unifont"}
LettersPerPage == {-2, -1, 1, 2, 3}

InitDoc ==
    /\ out_text \in DocTexts
    /\ font_name \in DocFonts
    /\ g_vertical \in BOOLEAN
    /\ g_letters_per_page \in LettersPerPage
    /\ g_threshold = Rat(3, 2)
    /\ cr = font_name
    /\ utf8_text = out_text
    /\ utf8_font_name = font_name
    /\ doc_chars = <<>>
    /\ num_page = 0
    /\ iPage = 0
    /\ iChar = 0
    /\ pages = <<>>
    /\ pc = "do_it"
    /\ caller = "page"
    /\ text = <<>>
    /\ x0 = RatZero
    /\ y0 = RatZero
    /\ width = RatZero
    /\ height = RatZero
    /\ fit_text = <<>>
    /\ CallIdle
    /\ CmdIdle
    /\ MonoIdle
    /\ PageIdle
    /\ FnIdle
    /\ beyond \in BeyondBytes

NextDoc ==
    \/ DoItSelectFont
    \/ DoItUnescape
    \/ DoItOnePage
    \/ DoItStrip
    \/ DoItPage
    \/ DoItReturn

SpecDoc == InitDoc /\ [][NextDoc]_vars

(***************************************************************************)
(* One call of u8_split_by_newlines.                                       *)
(***************************************************************************)
TextLen == 5
TextBytes == {97, 13, 10}
ThisIsATest == <<84, 104, 105, 115, 32, 105, 115, 10, 97, 32, 116, 101, 115, 116, 46>>

SplitTexts ==
    UNION {[1 .. n -> TextBytes] : n \in 0 .. TextLen} \cup {ThisIsATest}

InitText ==
    /\ fn_arg \in SplitTexts
    /\ fn_result = <<>>
    /\ pc = "call"
    /\ cr = "Arial"
    /\ g_vertical = FALSE
    /\ g_threshold = Rat(3, 2)
    /\ caller = "solver"
    /\ text = <<>>
    /\ x0 = RatZero
    /\ y0 = RatZero
    /\ width = RatZero
    /\ height = RatZero
    /\ fit_text = <<>>
    /\ CallIdle
    /\ CmdIdle
    /\ MonoIdle
    /\ PageIdle
    /\ DocIdle
    /\ beyond = 0

CallSplitByNewlines ==
    /\ pc = "call"
    /\ fn_result' = u8_split_by_newlines(fn_arg)
    /\ pc' = "returned"
    /\ UNCHANGED <<envVars, bandVars, monoVars, pageVars, docVars, fn_arg>>

NextText == CallSplitByNewlines

SpecText == InitText /\ [][NextText]_vars

(***************************************************************************)
(* One call of a string function on a byte string: pc names the function.  *)
(***************************************************************************)
\* u8_split_chars and u8_len on one string: every string of up to CharLen
\* bytes over an ASCII byte, a continuation byte and the lead byte of a
\* 3-byte form
CharLen == 5
CharBytes == {97, 129, 227}
CharTexts == UNION {[1 .. n -> CharBytes] : n \in 0 .. CharLen}

\* mstr_escape and then mstr_unescape on one string: every string of up to
\* EscLen bytes over the backslash, the letters t, n, r, f, a, and a raw tab
\* and line feed
EscLen == 3
EscBytes == {92, 116, 110, 114, 102, 97, 9, 10}
EscTexts == UNION {[1 .. n -> EscBytes] : n \in 0 .. EscLen}

\* the script detectors on one text: up to DetectLen pieces, each a Character
\* (ASCII, hiragana, katakana phonetic extension, halfwidth katakana, kanji,
\* hangul, an ideograph of extension B) or a byte that cannot begin a
\* code point (the lead byte of a 5-byte and of a 6-byte form, a
\* continuation byte)
DetectLen == 3
chKatakanaExt == <<227, 135, 176>>      \* U+31F0
chHalfKana == <<239, 189, 177>>         \* U+FF71
chExtB == <<240, 160, 174, 183>>        \* U+20BB7
DetectPieces ==
    {chW, chA, chKatakanaExt, chHalfKana, chKan, chJak, chExtB,
     <<248>>, <<252>>, <<129>>}

RECURSIVE PiecesOfLen(_)
PiecesOfLen(n) ==
    IF n = 0 THEN {<<>>}
    ELSE {t \o p : t \in PiecesOfLen(n - 1), p \in DetectPieces}

DetectTexts == UNION {PiecesOfLen(n) : n \in 0 .. DetectLen}

CallCases ==
    ({"u8_split_chars"} \X CharTexts)
    \cup ({"mstr_escape", "mstr_unescape_text"} \X EscTexts)
    \cup ({"u8_is_japanese_text", "u8_is_chinese_text", "u8_is_korean_text"}
          \X DetectTexts)
    \cup ({"u32_from_u8"} \X CharTexts)

InitCalls ==
    /\ \E c \in CallCases : pc = c[1] /\ fn_arg = c[2]
    /\ fn_result = <<>>
    /\ cr = "Arial"
    /\ g_vertical = FALSE
    /\ g_threshold = Rat(3, 2)
    /\ caller = "solver"
    /\ text = <<>>
    /\ x0 = RatZero
    /\ y0 = RatZero
    /\ width = RatZero
    /\ height = RatZero
    /\ fit_text = <<>>
    /\ CallIdle
    /\ CmdIdle
    /\ MonoIdle
    /\ PageIdle
    /\ DocIdle
    /\ beyond \in BeyondBytes

\* the Characters as pdf_scaling_h_text and pdf_draw_h_text get them (lines
\* 736, 1045) and the count as pdf_scaling_h_text gets it (line 763)
CallSplitChars ==
    /\ pc = "u8_split_chars"
    /\ fn_result' = [chars |-> u8_split_chars(fn_arg), len |-> u8_len(fn_arg)]
    /\ pc' = "split_chars_done"
    /\ UNCHANGED <<envVars, bandVars, monoVars, pageVars, docVars, fn_arg>>

CallEscape ==
    /\ pc = "mstr_escape"
    /\ fn_result' = mstr_escape(fn_arg)
    /\ pc' = "mstr_unescape"
    /\ UNCHANGED <<envVars, bandVars, monoVars, pageVars, docVars, fn_arg>>

\* the escaped string is unescaped again
CallUnescape ==
    /\ pc = "mstr_unescape"
    /\ fn_result' = mstr_unescape(fn_result)
    /\ pc' = "round_trip_done"
    /\ UNCHANGED <<envVars, bandVars, monoVars, pageVars, docVars, fn_arg>>

\* mstr_unescape on a text as the command line gives it (line 1456)
CallUnescapeText ==
    /\ pc = "mstr_unescape_text"
    /\ fn_result' = mstr_unescape(fn_arg)
    /\ pc' = "unescape_done"
    /\ UNCHANGED <<envVars, bandVars, monoVars, pageVars, docVars, fn_arg>>

CallJapanese ==
    /\ pc = "u8_is_japanese_text"
    /\ fn_result' = u8_is_japanese_text(fn_arg)
    /\ pc' = "japanese_done"
    /\ UNCHANGED <<envVars, bandVars, monoVars, pageVars, docVars, fn_arg>>

\* u8_is_japanese_text on a text that may end inside a sequence: what its
\* calls of u32_from_u8 read, and what it returns
CallDecode ==
    /\ pc = "u32_from_u8"
    /\ fn_result' = [reads |-> JapaneseReadsFrom(fn_arg, 1, {}),
                     ret |-> u8_is_japanese_text(fn_arg)]
    /\ pc' = "decode_done"
    /\ UNCHANGED <<envVars, bandVars, monoVars, pageVars, docVars, fn_arg>>

CallChinese ==
    /\ pc = "u8_is_chinese_text"
    /\ fn_result' = u8_is_chinese_text(fn_arg)
    /\ pc' = "chinese_done"
    /\ UNCHANGED <<envVars, bandVars, monoVars, pageVars, docVars, fn_arg>>

CallKorean ==
    /\ pc = "u8_is_korean_text"
    /\ fn_result' = u8_is_korean_text(fn_arg)
    /\ pc' = "korean_done"
    /\ UNCHANGED <<envVars, bandVars, monoVars, pageVars, docVars, fn_arg>>

NextCalls ==
    \/ CallSplitChars
    \/ CallEscape
    \/ CallUnescape
    \/ CallUnescapeText
    \/ CallJapanese
    \/ CallDecode
    \/ CallChinese
    \/ CallKorean

SpecCalls == InitCalls /\ [][NextCalls]_vars

(***************************************************************************)
(* pdfplaca_parse_cmdline on --vertical, --margin and --threshold; an      *)
(* argument that is no option name is rejected by the last else.           *)
(***************************************************************************)
\* the command lines of the model: up to ArgLen arguments, each one of the
\* three option names or one of the texts 0.5, 2, 0, -3, nan, 1x
ArgLen == 4
ArgTexts ==
    {OptVertical, OptMargin, OptThreshold,
     <<48, 46, 53>>, <<50>>, <<48>>, <<45, 51>>, <<110, 97, 110>>, <<49, 120>>}
ArgLists == UNION {[1 .. n -> ArgTexts] : n \in 0 .. ArgLen}

InitArgs ==
    /\ argv \in ArgLists
    /\ iarg = 1
    /\ g_margin = RatInt(8)
    /\ g_threshold = Rat(3, 2)
    /\ g_vertical = FALSE
    /\ cr = "Arial"
    /\ pc = "parse_cmdline"
    /\ caller = "solver"
    /\ text = <<>>
    /\ x0 = RatZero
    /\ y0 = RatZero
    /\ width = RatZero
    /\ height = RatZero
    /\ fit_text = <<>>
    /\ CallIdle
    /\ MonoIdle
    /\ PageIdle
    /\ DocIdle
    /\ FnIdle
    /\ beyond = 0

\* lines 1182-1185
ParseVertical ==
    /\ pc = "parse_cmdline"
    /\ iarg <= Len(argv)
    /\ argv[iarg] = OptVertical
    /\ g_vertical' = TRUE
    /\ iarg' = iarg + 1
    /\ UNCHANGED <<cr, g_threshold, g_margin, argv, beyond, pc, bandVars, restVars>>

\* lines 1214-1223
ParseMargin ==
    /\ pc = "parse_cmdline"
    /\ iarg <= Len(argv)
    /\ argv[iarg] = OptMargin
    /\ IF iarg >= Len(argv)
       THEN pc' = "parse_false" /\ UNCHANGED <<g_margin, iarg>>
       ELSE \E parsed \in {tcstod(argv[iarg + 1])} :
              /\ g_margin' = parsed.value
              /\ IF MarginRejected(argv[iarg + 1], parsed)
                 THEN pc' = "parse_false" /\ iarg' = iarg + 1
                 ELSE pc' = pc /\ iarg' = iarg + 2
    /\ UNCHANGED <<cr, g_vertical, g_threshold, argv, beyond, bandVars, restVars>>

\* lines 1224-1232
ParseThreshold ==
    /\ pc = "parse_cmdline"
    /\ iarg <= Len(argv)
    /\ argv[iarg] = OptThreshold
    /\ IF iarg >= Len(argv)
       THEN pc' = "parse_false" /\ UNCHANGED <<g_threshold, iarg>>
       ELSE \E parsed \in {tcstod(argv[iarg + 1])} :
              /\ g_threshold' = parsed.value
              /\ IF ThresholdRejected(argv[iarg + 1], parsed, g_margin)
                 THEN pc' = "parse_false" /\ iarg' = iarg + 1
                 ELSE pc' = pc /\ iarg' = iarg + 2
    /\ UNCHANGED <<cr, g_vertical, g_margin, argv, beyond, bandVars, restVars>>

\* lines 1273-1276
ParseUnknown ==
    /\ pc = "parse_cmdline"
    /\ iarg <= Len(argv)
    /\ argv[iarg] \notin {OptVertical, OptMargin, OptThreshold}
    /\ pc' = "parse_false"
    /\ UNCHANGED <<envVars, bandVars, restVars>>

\* line 1279
ParseReturn ==
    /\ pc = "parse_cmdline"
    /\ iarg > Len(argv)
    /\ pc' = "parse_true"
    /\ UNCHANGED <<envVars, bandVars, restVars>>

NextArgs ==
    \/ ParseVertical
    \/ ParseMargin
    \/ ParseThreshold
    \/ ParseUnknown
    \/ ParseReturn

SpecArgs == InitArgs /\ [][NextArgs]_vars

(***************************************************************************)
(* Properties of the fit solvers and of the drawing routines.              *)
(***************************************************************************)
\* what the horizontal solver measures at the current font size
HMeasured == pdf_get_h_text_width_and_height(cr, chars, font_size)
VMeasured == pdf_get_v_text_width_and_height(cr, chars, font_size)

MetricsZero(m) == RatIsZero(m[1]) \/ RatIsZero(m[2])

\* C1: pdf_scaling_h_text returns false exactly when the Row is empty, or
\* the text width or text height measured at the font size of the last pass is
\* zero, or font_size has reached 10000; in every other case it returns true.
C1_HFailsExactlyWhen ==
    (~g_vertical /\ pc \in {"fit_true", "fit_false"})
        => ((pc = "fit_false")
              <=> (fit_text = <<>> \/ FontGuard(font_size) \/ MetricsZero(HMeasured)))

Factor == IF g_vertical THEN Rat1_05 ELSE Rat1_1
Fill == IF g_vertical THEN Rat(95, 100) ELSE Rat(9, 10)
Measured == IF g_vertical THEN VMeasured ELSE HMeasured
InLoop == pc \in {"h_loop", "v_loop"}

\* C2 as stated: the font_size < 10000 guard bounds every kind of pass of the
\* search loop, that is, every pass after which the loop goes on has
\* increased font_size.
C2_EveryPassGrowsFont ==
    [][(InLoop /\ pc' = pc) => RatLt(font_size, font_size')]_vars

\* the pass that stretched a scale last had room for it
StretchHadRoom(m, scale, target) ==
    HasRoom(m, RatDiv(scale, Factor), target, Fill)

\* C2, amended: while a search loop runs, font_size is below 10000 times the
\* growth factor, so the guard bounds the growth passes; a stretch pass leaves
\* font_size alone and is bounded by the target box instead, the scale before
\* it having had room in the box; and only a text whose measured width is zero
\* (which pdf_scaling_h_text does not reject) is stretched without end.
C2_LoopBounded ==
    (pc \in {"h_loop", "v_loop", "h_aspect", "v_aspect"}) =>
        /\ RatLt(font_size, RatMul(RatInt(10000), Factor))
        /\ steps.stretch_x > 0 => StretchHadRoom(Measured[1], scale_x, width)
        /\ steps.stretch_y > 0 => StretchHadRoom(Measured[2], scale_y, height)
        /\ steps.stretch_x = MaxStretch => RatIsZero(Measured[1])
        /\ steps.stretch_y < MaxStretch

\* a solve that stretched scale_x 30 times and more without one growth pass,
\* and succeeded
C2_Witness == pc = "fit_true" /\ steps.grow = 0 /\ steps.stretch_x > 30

\* C3: the while of pdf_draw_v_text ends.  A pass multiplies scale_y by 0.95,
\* so each_blank_height rises towards height / (N + 1) and stays below it
\* (in doubles it is at most that value, reached when scale_y has underflowed
\* to 0): whenever the loop has a pass to make, font_size / 5 is not above
\* height / (N + 1).
C3_GapLoopEnds ==
    (pc = "v_gap" /\ GapBelowFloor(each_blank, font_size))
        => RatLe(RatDiv(font_size, RatInt(5)),
                 RatDiv(height, RatInt(Len(chars) + 1)))

\* a / b <= threshold in doubles, for a >= 0 and b >= 0: a division by zero
\* gives +infinity or NaN, and neither is <= threshold
RatioAtMost(a, b, threshold) == ~RatIsZero(b) /\ RatLe(a, RatMul(threshold, b))

AspectCapped(a, b, threshold) ==
    RatioAtMost(a, b, threshold) /\ RatioAtMost(b, a, threshold)

\* C4: after a successful horizontal fit the width of the average character
\* and the height of the text, scaled, are within a factor g_threshold of each
\* other, text_width and text_height measured at the returned font_size.
C4_HAspectCapped ==
    (~g_vertical /\ pc = "fit_true")
        => AspectCapped(RatDiv(RatMul(HMeasured[1], scale_x), RatInt(Len(chars))),
                        RatMul(HMeasured[2], scale_y), g_threshold)

Positive(a) == RatLt(RatZero, a)

\* C5: a successful fit returns 10 <= font_size < 10000, scale_x > 0 and
\* scale_y > 0.
C5_FitResultInRange ==
    (pc = "fit_true") =>
        /\ RatLe(RatInt(10), font_size)
        /\ ~FontGuard(font_size)
        /\ Positive(scale_x)
        /\ Positive(scale_y)

\* C6: a Row that fits a box with a font size fits a box at least as wide and
\* as high with a font size that is not smaller: when both solves succeed,
\* the font_size of the second is at least the font_size of the first.
C6_FitMonotone ==
    (solve_no = 2 /\ pc = "fit_true" /\ first_fit.ok)
        => RatLe(first_fit.font_size, font_size)

\* both solves succeeded and the larger box got the larger font
C6_Witness ==
    /\ solve_no = 2
    /\ pc = "fit_true"
    /\ first_fit.ok
    /\ RatLt(first_fit.font_size, font_size)

(***************************************************************************)
(* Properties of a page.                                                   *)
(***************************************************************************)
\* the k-th band of a page of n bands, from the geometry alone
ExpectedBox(g, vertical, n, k) ==
    IF vertical
    THEN [x |-> RatSub(RatInt(2 * g.margin + g.printable_width),
                       RatMul(RatInt(k),
                              RatAdd(RatInt(g.margin),
                                     RowExtent(RatInt(g.page_width), RatInt(g.margin), n)))),
          y |-> RatInt(g.margin),
          w |-> RowExtent(RatInt(g.page_width), RatInt(g.margin), n),
          h |-> RatInt(g.printable_height)]
    ELSE [x |-> RatInt(g.margin),
          y |-> RatAdd(RatInt(g.margin),
                       RatMul(RatInt(k - 1),
                              RatAdd(RatInt(g.margin),
                                     RowExtent(RatInt(g.page_height), RatInt(g.margin), n)))),
          w |-> RatInt(g.printable_width),
          h |-> RowExtent(RatInt(g.page_height), RatInt(g.margin), n)]

BoxEq(a, b) == RatEq(a.x, b.x) /\ RatEq(a.y, b.y) /\ RatEq(a.w, b.w) /\ RatEq(a.h, b.h)

\* the call for band k was made for row k and the box filled for it, and drew
\* every Character of the row if it returned true and none if it returned false
BandCallAsExpected(call, row, box) ==
    /\ call.text = row
    /\ RatEq(call.width, box.w)
    /\ RatEq(call.height, box.h)
    /\ Len(call.drawn) = IF call.returned THEN Len(u8_split_chars(row)) ELSE 0

\* C7: a band whose fit fails has no Character drawn, and every band of the
\* page, before or after a failed one, is filled and handed to the text
\* routine with the box that its index alone determines; when the page is
\* done every row has been filled and handed over.
C7_FailedBandSkipped ==
    /\ \A k \in 1 .. Len(fills) :
         BoxEq(fills[k], ExpectedBox(geometry, g_vertical, Len(rows), k))
    /\ \A k \in 1 .. Len(texts) : BandCallAsExpected(texts[k], rows[k], fills[k])
    /\ pc \in {"fit_false", "draw_false"} => band_drawn = <<>>
    /\ pc = "page_done" => Len(fills) = Len(rows) /\ Len(texts) = Len(rows)

\* a page is done on which a band failed and a later band was drawn
C7_Witness ==
    /\ pc = "page_done"
    /\ \E k \in 1 .. Len(texts) : \E j \in k + 1 .. Len(texts) :
         ~texts[k].returned /\ texts[j].returned /\ texts[j].drawn # <<>>

\* the lower and the upper end of the span a filled band covers on the axis
\* the bands are stacked along (cairo fills a rectangle of negative extent
\* backwards from its origin)
SpanLo(at, extent) == IF RatLt(extent, RatZero) THEN RatAdd(at, extent) ELSE at
SpanHi(at, extent) == IF RatLt(extent, RatZero) THEN at ELSE RatAdd(at, extent)
\* two spans have no interior point in common
SpansApart(lo1, hi1, lo2, hi2) == RatLe(hi1, lo2) \/ RatLe(hi2, lo1)

HBandsApart(a, b) ==
    SpansApart(SpanLo(a.y, a.h), SpanHi(a.y, a.h), SpanLo(b.y, b.h), SpanHi(b.y, b.h))

\* C11: on a horizontal page every band filled so far has the height
\* (page_height - margin * (rowCount + 1)) / rowCount, the first band starts
\* at y = margin, each next band starts one margin below the end of the one
\* before it, no two bands overlap, and when the page is done the end of the
\* last band plus one margin is page_height.
C11_HBandGeometry ==
    ~g_vertical /\ Len(rows) >= 1 =>
      /\ \A k \in 1 .. Len(fills) :
           RatEq(fills[k].h, RowExtent(RatInt(geometry.page_height),
                                       RatInt(geometry.margin), Len(rows)))
      /\ Len(fills) >= 1 => RatEq(fills[1].y, RatInt(geometry.margin))
      /\ \A k \in 1 .. Len(fills) - 1 :
           RatEq(fills[k + 1].y,
                 RatAdd(RatAdd(fills[k].y, fills[k].h), RatInt(geometry.margin)))
      /\ \A j \in 1 .. Len(fills) : \A k \in j + 1 .. Len(fills) :
           HBandsApart(fills[j], fills[k])
      /\ pc = "page_done" =>
           RatEq(RatAdd(RatAdd(fills[Len(fills)].y, fills[Len(fills)].h),
                        RatInt(geometry.margin)),
                 RatInt(geometry.page_height))

\* band b lies strictly to the left of band a
VBandLeftOf(b, a) == RatLt(SpanHi(b.x, b.w), SpanLo(a.x, a.w))

\* C12: on a vertical page row k of the text is handed over with the k-th
\* band, the first band has its right edge at page_width - margin, the right
\* edge of each next band is one margin to the left of the left edge of the
\* one before it, every later band lies strictly to the left of every earlier
\* one, and when the page is done the left edge of the last band is at
\* x = margin.
C12_VBandGeometry ==
    g_vertical /\ Len(rows) >= 1 =>
      /\ \A k \in 1 .. Len(texts) :
           texts[k].text = rows[k] /\ RatEq(texts[k].width, fills[k].w)
      /\ Len(fills) >= 1 =>
           RatEq(RatAdd(fills[1].x, fills[1].w),
                 RatInt(geometry.page_width - geometry.margin))
      /\ \A k \in 1 .. Len(fills) - 1 :
           RatEq(RatAdd(RatAdd(fills[k + 1].x, fills[k + 1].w), RatInt(geometry.margin)),
                 fills[k].x)
      /\ \A j \in 1 .. Len(fills) : \A k \in j + 1 .. Len(fills) :
           VBandLeftOf(fills[k], fills[j])
      /\ pc = "page_done" => RatEq(fills[Len(fills)].x, RatInt(geometry.margin))

(***************************************************************************)
(* Properties of pdfplaca_do_it.                                           *)
(***************************************************************************)
\* a detector reports its script for str and the face has not the glyphs of
\* that script
FontLacksDetected(str, face) ==
    \/ u8_is_japanese_text(str) # 0 /\ ~pdf_is_font_japanese(face)
    \/ u8_is_chinese_text(str) # 0 /\ ~pdf_is_font_chinese(face)
    \/ u8_is_korean_text(str) # 0 /\ ~pdf_is_font_korean(face)

FirstDetected(str) ==
    IF u8_is_japanese_text(str) # 0 THEN "ja"
    ELSE IF u8_is_chinese_text(str) # 0 THEN "zh"
    ELSE IF u8_is_korean_text(str) # 0 THEN "ko"
    ELSE "none"

FaceHas(face, script) ==
    CASE script = "ja" -> pdf_is_font_japanese(face)
      [] script = "zh" -> pdf_is_font_chinese(face)
      [] script = "ko" -> pdf_is_font_korean(face)
      [] OTHER -> TRUE

MessageOf(script) ==
    CASE script = "ja" -> NotJapaneseFont
      [] script = "zh" -> NotChineseFont
      [] OTHER -> NotKoreanFont

CharCount(str) == Len(u8_split_chars(str))

CeilDiv(n, k) == IF n % k = 0 THEN n \div k ELSE (n \div k) + 1

RECURSIVE ConcatFrom(_, _)
ConcatFrom(list, i) == IF i > Len(list) THEN <<>> ELSE list[i] \o ConcatFrom(list, i + 1)

\* C9: with g_letters_per_page = k > 0 and a stripped text of n Characters,
\* ceil(n / k) pages are drawn, every page but the last of k Characters, the
\* last of 1 to k, and the pages in order make up the stripped text.
C9_PageChunking ==
    (pc = "do_done" /\ g_letters_per_page > 0) =>
        /\ Len(pages) = CeilDiv(CharCount(utf8_text), g_letters_per_page)
        /\ \A p \in 1 .. Len(pages) - 1 : CharCount(pages[p]) = g_letters_per_page
        /\ pages # <<>> => CharCount(pages[Len(pages)]) \in 1 .. g_letters_per_page
        /\ ConcatFrom(pages, 1) = utf8_text
        /\ \A i \in DOMAIN doc_chars :
             doc_chars[i] \notin {<<32>>, <<9>>, <<13>>, <<10>>, <<227, 128, 128>>}

\* five Characters on three pages of two
C9_Witness ==
    /\ pc = "do_done"
    /\ g_letters_per_page = 2
    /\ Len(pages) = 3
    /\ CharCount(pages[3]) = 1

(***************************************************************************)
(* Properties of u8_split_by_newlines.                                     *)
(***************************************************************************)
\* the line breaks of str: every carriage return, and every line feed that
\* does not follow a carriage return
Breaks(str) ==
    Cardinality({i \in DOMAIN str : str[i] = 13})
    + Cardinality({i \in DOMAIN str : str[i] = 10 /\ (i = 1 \/ str[i - 1] # 13)})

\* str with every line break written as one line feed
RECURSIVE NormalizedFrom(_, _)
NormalizedFrom(str, i) ==
    IF i > Len(str) THEN <<>>
    ELSE IF str[i] = 13 /\ i < Len(str) /\ str[i + 1] = 10
    THEN <<10>> \o NormalizedFrom(str, i + 2)
    ELSE IF str[i] = 13 THEN <<10>> \o NormalizedFrom(str, i + 1)
    ELSE <<str[i]>> \o NormalizedFrom(str, i + 1)

\* C10: the Rows are one more than the line breaks of the text, a CRLF pair,
\* a lone CR and a lone LF each being one break; empty Rows stay where they
\* are, the Rows joined by a line feed being the text with its breaks
\* normalized; and "This is\na test." has the two Rows "This is" and "a test.".
C10_RowsPerBreak ==
    (pc = "returned") =>
        /\ Len(fn_result) = 1 + Breaks(fn_arg)
        /\ mstr_join(fn_result, <<10>>) = NormalizedFrom(fn_arg, 1)
        /\ fn_arg = ThisIsATest
             => fn_result = << <<84, 104, 105, 115, 32, 105, 115>>,
                               <<97, 32, 116, 101, 115, 116, 46>> >>

\* a text with a CRLF pair and an empty Row between two breaks
C10_Witness ==
    /\ pc = "returned"
    /\ fn_arg = <<97, 13, 10, 10, 97>>
    /\ fn_result = << <<97>>, <<>>, <<97>> >>

(***************************************************************************)
(* Properties of the string functions.                                     *)
(***************************************************************************)
\* one lead byte followed by continuation bytes only
OneLeadThenTrail(ch) ==
    /\ ch # <<>>
    /\ u8_is_lead(ch[1])
    /\ \A i \in 2 .. Len(ch) : ~u8_is_lead(ch[i])

\* C13: for every byte string u8_split_chars yields as many Characters as
\* u8_len counts lead bytes, and every Character is one lead byte followed by
\* its continuation bytes.
C13_CharsAreLeadBytes ==
    pc = "split_chars_done" =>
      /\ Len(fn_result.chars) = fn_result.len
      /\ \A k \in 1 .. Len(fn_result.chars) : OneLeadThenTrail(fn_result.chars[k])

\* C14: for every string s, unescaping the escaped s gives s back.
C14_EscapeRoundTrip ==
    pc = "round_trip_done" => fn_result = fn_arg

\* a round trip of a string in which a backslash stands before the letter t
\* and which has a raw tab as well
C14_Witness ==
    /\ pc = "round_trip_done"
    /\ \E i \in 1 .. Len(fn_arg) - 1 : fn_arg[i] = 92 /\ fn_arg[i + 1] = 116
    /\ \E i \in 1 .. Len(fn_arg) : fn_arg[i] = 9

\* the length of the UTF-8 sequence of 1 to 4 bytes that byte b begins, 0 if
\* it begins none
SeqLenOf(b) ==
    IF b < 128 THEN 1
    ELSE IF b \in 192 .. 223 THEN 2
    ELSE IF b \in 224 .. 239 THEN 3
    ELSE IF b \in 240 .. 247 THEN 4
    ELSE 0

\* a Character that is one whole UTF-8 sequence of 1 to 4 bytes
WellFormed(ch) == SeqLenOf(ch[1]) = Len(ch)

\* its code point
CodePoint(ch) ==
    CASE Len(ch) = 1 -> ch[1]
      [] Len(ch) = 2 -> (ch[1] - 192) * 64 + (ch[2] - 128)
      [] Len(ch) = 3 -> (ch[1] - 224) * 4096 + (ch[2] - 128) * 64 + (ch[3] - 128)
      [] OTHER -> (ch[1] - 240) * 262144 + (ch[2] - 128) * 4096 + (ch[3] - 128) * 64
                  + (ch[4] - 128)

\* the index of the first Character that is not well formed, 0 if there is none
FirstIllFormed(list) ==
    IF \A k \in DOMAIN list : WellFormed(list[k]) THEN 0
    ELSE CHOOSE k \in DOMAIN list :
           ~WellFormed(list[k]) /\ \A j \in 1 .. k - 1 : WellFormed(list[j])

\* hiragana, katakana, katakana phonetic extensions
JapaneseStrong(u32) ==
    u32 \in 12352 .. 12447 \/ u32 \in 12448 .. 12543 \/ u32 \in 12784 .. 12799
\* U+FF01-U+FF9D, the kanji ranges, U+3000-U+303F
JapaneseWeak(u32) ==
    \/ u32 \in 65281 .. 65437
    \/ u32 \in 13312 .. 19893 \/ u32 \in 19968 .. 40907 \/ u32 \in 63744 .. 64106
    \/ u32 \in 12288 .. 12351

JapaneseTierOf(list) ==
    IF \E k \in DOMAIN list : JapaneseStrong(CodePoint(list[k])) THEN 2
    ELSE IF \E k \in DOMAIN list : JapaneseWeak(CodePoint(list[k])) THEN 1
    ELSE 0

JapaneseAsClaimed(list, result) ==
    FirstIllFormed(list) = 0 => result = JapaneseTierOf(list)

\* C15: for a text that decodes without failure u8_is_japanese_text returns 2
\* iff a code point of the text is hiragana, katakana or a katakana phonetic
\* extension, otherwise 1 iff a code point is in U+FF01-U+FF9D, a kanji range
\* or U+3000-U+303F, otherwise 0, whatever the order of the code points.
C15_JapaneseTier ==
    pc = "japanese_done" => JapaneseAsClaimed(u8_split_chars(fn_arg), fn_result)

\* a text of a hiragana, then a kanji, then an ASCII letter has been rated 2
C15_Witness ==
    /\ pc = "japanese_done"
    /\ fn_arg = chA \o chKan \o chW
    /\ fn_result = 2

\* the code points decoded before the decoding fails in Character k, the
\* first that is not well formed: those of the Characters before it, and the
\* one of its own beginning if it is a whole sequence with bytes left over
HeadOf(ch) ==
    IF SeqLenOf(ch[1]) \in 1 .. Len(ch) - 1
    THEN {CodePoint(SubSeq(ch, 1, SeqLenOf(ch[1])))}
    ELSE {}

DecodedBefore(list, k) == {CodePoint(list[j]) : j \in 1 .. k - 1} \cup HeadOf(list[k])

FailureIsNone(list, result) == FirstIllFormed(list) # 0 => result = 0

ChineseOnFailure(list, k, result) ==
    k # 0 => result = IF \E u32 \in DecodedBefore(list, k) : ChineseHit(u32)
                      THEN 1 ELSE 0

Whitespace == {<<32>>, <<227, 128, 128>>, <<9>>, <<13>>, <<10>>, <<12>>}

NoWhitespaceIn(list) == \A i \in DOMAIN list : list[i] \notin Whitespace

\* C17: with g_letters_per_page > 0 no page drawn has a space, an ideographic
\* space, a tab, a CR, an LF or a form feed among its Characters.
C17_NoWhitespaceInChunks ==
    g_letters_per_page > 0 =>
      \A p \in 1 .. Len(pages) : NoWhitespaceIn(u8_split_chars(pages[p]))

(***************************************************************************)
(* Properties of the layout of a band.                                     *)
(***************************************************************************)
\* the sum of the advances of the first k Characters of list
RECURSIVE AdvanceSum(_, _, _, _)
AdvanceSum(face, list, size, k) ==
    IF k = 0 THEN RatZero
    ELSE RatAdd(AdvanceSum(face, list, size, k - 1),
                cairo_text_extents(face, list[k], size).x_advance)

\* gap = (targetWidth - sum of advance * scaleX) / (N + 1)
GapOf(list, total) ==
    RatDiv(RatSub(width, RatMul(total, scale_x)), RatInt(Len(list) + 1))

\* Character i starts at x0 + i * gap + scaleX * (advances before it), i
\* counted from 1
HPlacedAt(list, gap, i) ==
    /\ band_drawn[i].ch = list[i]
    /\ RatEq(band_drawn[i].x,
             RatAdd(RatAdd(x0, RatMul(RatInt(i), gap)),
                    RatMul(scale_x, AdvanceSum(cr, list, font_size, i - 1))))

HPlaced(list, gap) ==
    /\ Len(band_drawn) = Len(list)
    /\ \A i \in 1 .. Len(list) : HPlacedAt(list, gap, i)
    /\ RatEq(RatAdd(RatAdd(band_drawn[Len(list)].x,
                           RatMul(scale_x,
                                  cairo_text_extents(cr, list[Len(list)],
                                                     font_size).x_advance)),
                    gap),
             RatAdd(x0, width))

\* C18: pdf_draw_h_text draws the N Characters of the Row in their order, the
\* i-th at x0 + i * gap + scale_x * (the advances of the Characters before
\* it) with gap = (width - scale_x * sum of the advances) / (N + 1), and the
\* end of the last Character plus one gap is x0 + width.
C18_HLayout ==
    (pc = "drawn" /\ ~g_vertical) =>
      HPlaced(u8_split_chars(text),
              GapOf(u8_split_chars(text),
                    AdvanceSum(cr, u8_split_chars(text), font_size,
                               Len(u8_split_chars(text)))))

\* a Row of a space, a W and a hyphen, of three different advances, has been
\* drawn into a box 300 wide
C18_Witness ==
    /\ pc = "drawn"
    /\ ~g_vertical
    /\ text = chSpace \o chW \o chHyphen
    /\ width = RatInt(300)
    /\ Len(band_drawn) = 3
    /\ RatLt(band_drawn[1].x, band_drawn[2].x)

\* the Characters drawn, in order
DrawnChars == [i \in 1 .. Len(band_drawn) |-> band_drawn[i].ch]

AllAscii(str) == \A i \in DOMAIN str : str[i] < 128

\* the call is past the choice of the text to fit
PastMapping == pc \notin {"draw_text", "draw_false"}

\* the statement: a Column of ASCII Characters only is fitted and drawn as it
\* is
C19_LatinNotMapped ==
    (g_vertical /\ caller # "solver" /\ AllAscii(text) /\ PastMapping) =>
      /\ fit_text = text
      /\ pc = "drawn" => DrawnChars = u8_split_chars(text)

\* the Character of the font's fullwidth form for "!" to "~", the Character
\* itself otherwise
AsFullwidth(ch) ==
    IF Len(ch) = 1 /\ ch[1] \in 33 .. 126
    THEN u8_split_chars(<<239, 188 + ((ch[1] - 32) \div 64), 128 + ((ch[1] - 32) % 64)>>)[1]
    ELSE ch

FontIsCJK == pdf_is_font_japanese(cr) \/ pdf_is_font_chinese(cr) \/ pdf_is_font_korean(cr)

ExpectedColumn(list) ==
    IF FontIsCJK THEN [i \in DOMAIN list |-> AsFullwidth(list[i])] ELSE list

\* C19: in vertical mode the font alone decides whether the text goes through
\* the fullwidth mapper: with a font without Japanese, Chinese and Korean
\* glyphs the Characters fitted and drawn are those of the Column, with a
\* font that has such glyphs every Character from "!" to "~" is fitted and
\* drawn as its fullwidth form, also in a Column of ASCII Characters only.
C19_MappedByFont ==
    (g_vertical /\ caller # "solver" /\ PastMapping) =>
      /\ u8_split_chars(fit_text) = ExpectedColumn(u8_split_chars(text))
      /\ pc = "drawn" => DrawnChars = ExpectedColumn(u8_split_chars(text))

\* the Column "(i" has been drawn with a font that has Japanese glyphs
C19_Witness ==
    /\ g_vertical
    /\ caller # "solver"
    /\ pc = "drawn"
    /\ text = chParen \o chI
    /\ pdf_is_font_japanese(cr)
    /\ Len(band_drawn) = 2

(***************************************************************************)
(* The two aspect checks of pdf_scaling_h_text.                            *)
(***************************************************************************)
\* what k passes of the horizontal search loop stretch a scale to: 1.1^k
StretchedBy(k) == [RatOne EXCEPT !.p = <<k, 0, 0>>]

\* a horizontal solve has returned true
HSolved == pc = "fit_true" /\ ~g_vertical

\* the first check has triggered: scale_x is below what the loop left
XLowered == RatLt(scale_x, StretchedBy(steps.stretch_x))

\* the second check has triggered: scale_y is below what the loop left
YLowered == RatLt(scale_y, StretchedBy(steps.stretch_y))

XAtThreshold(m, len) ==
    RatEq(RatDiv(RatMul(m[1], scale_x), RatInt(len)),
          RatMul(g_threshold, RatMul(m[2], scale_y)))

FillsBand == fills' # fills

\* the step draws Characters
DrawsChars == band_drawn' # band_drawn /\ band_drawn' # <<>>

\* the bands of the page whose fit and layout have run to completion: those
\* the text routine has returned for, and the one whose solver and gap loop
\* have just ended
BandsFitted == iRow + (IF pc \in {"fit_true", "v_gap"} THEN 1 ELSE 0)

ColumnShare(ch) == pdf_get_v_text_width_and_height(cr, <<ch>>, font_size)[2]

\* y after the Character drawn at list[i] if the advance is scale_y times
\* its share of the column height, and one gap follows
YAfter(list, i) ==
    RatAdd(RatAdd(list[i].y, RatMul(scale_y, ColumnShare(list[i].ch))), each_blank)

\* the first Character is one gap below the top of the column, each next
\* one where YAfter leaves y, and YAfter of the last is the bottom
VPlaced(list) ==
    /\ Len(list) = Len(chars)
    /\ RatEq(list[1].y, RatAdd(y0, each_blank))
    /\ \A i \in 1 .. Len(list) - 1 : RatEq(list[i + 1].y, YAfter(list, i))
    /\ RatEq(YAfter(list, Len(list)), RatAdd(y0, height))

\* C22: when pdf_draw_v_text has drawn a Column, y has been advanced after
\* every Character by scale_y times the height that Character adds to the
\* column height in pdf_get_v_text_width_and_height, whatever its category,
\* so that y after the last Character plus one gap is y0 + height.
C22_VFootprint == (pc = "drawn" /\ g_vertical) => VPlaced(band_drawn)

\* the category by which the layout treats a Character
CategoryOf(ch) ==
    IF u8_is_space(ch) THEN "Space"
    ELSE IF u8_is_small_kana(ch) THEN "SmallKana"
    ELSE IF u8_is_hyphen_dash(ch) THEN "HyphenDash"
    ELSE IF u8_is_paren_type_1(ch) THEN "Paren1"
    ELSE IF u8_is_paren_type_2(ch) THEN "Paren2"
    ELSE IF u8_is_paren_type_3(ch) THEN "Paren3"
    ELSE IF u8_is_comma_period(ch) THEN "CommaPeriod"
    ELSE "Other"

\* a Column of a paren of each of the three categories has been drawn, the
\* glyphs higher than wide
C22_Witness ==
    /\ pc = "drawn"
    /\ g_vertical
    /\ {CategoryOf(band_drawn[i].ch) : i \in 1 .. Len(band_drawn)}
         = {"Paren1", "Paren2", "Paren3"}
    /\ \A i \in 1 .. Len(band_drawn) :
         RatLt(cairo_text_extents(cr, band_drawn[i].ch, font_size).width,
               cairo_text_extents(cr, band_drawn[i].ch, font_size).height)

(***************************************************************************)
(* What mstr_unescape rewrites.                                            *)
(***************************************************************************)
\* the control character of a recognized escape letter
ControlOf(ch) ==
    CASE ch = 116 -> 9 [] ch = 110 -> 10 [] ch = 114 -> 13 [] ch = 102 -> 12
      [] ch = 92 -> 92

Recognized(ch) == ch \in {116, 110, 114, 102, 92}

\* str with the five recognized escapes rewritten and every other byte kept
RECURSIVE OnlyRecognizedRewritten(_, _)
OnlyRecognizedRewritten(str, i) ==
    IF i > Len(str) THEN <<>>
    ELSE IF str[i] = 92 /\ i < Len(str) /\ Recognized(str[i + 1])
    THEN <<ControlOf(str[i + 1])>> \o OnlyRecognizedRewritten(str, i + 2)
    ELSE <<str[i]>> \o OnlyRecognizedRewritten(str, i + 1)

\* the statement: the output is the input with the five recognized escapes
\* rewritten and nothing else changed
C23_OnlyFiveRewritten ==
    pc = "unescape_done" => fn_result = OnlyRecognizedRewritten(fn_arg, 1)

\* str with every backslash that has a byte after it taken out, that byte
\* rewritten if it is one of the recognized letters and kept otherwise
RECURSIVE EveryEscapeConsumed(_, _)
EveryEscapeConsumed(str, i) ==
    IF i > Len(str) THEN <<>>
    ELSE IF str[i] = 92 /\ i < Len(str)
    THEN <<IF Recognized(str[i + 1]) THEN ControlOf(str[i + 1]) ELSE str[i + 1]>>
         \o EveryEscapeConsumed(str, i + 2)
    ELSE <<str[i]>> \o EveryEscapeConsumed(str, i + 1)

\* C23: mstr_unescape takes a backslash and the byte after it as one
\* escape whatever that byte is: the five recognized escapes become their
\* control characters (a backslash for two), an unrecognized escape loses
\* its backslash and keeps the byte after it; a byte outside an escape and
\* a backslash that ends the text are kept.
C23_EscapesConsumed ==
    pc = "unescape_done" => fn_result = EveryEscapeConsumed(fn_arg, 1)

\* "\a\" has been unescaped to "a\": the backslash of the unrecognized
\* escape is gone, the one that ends the text is kept
C23_Witness ==
    /\ pc = "unescape_done"
    /\ fn_arg = <<92, 97, 92>>
    /\ fn_result = <<97, 92>>

(***************************************************************************)
(* Properties of pdfplaca_parse_cmdline.                                   *)
(***************************************************************************)
\* the threshold the solvers will get is a normal number and at least 1
ThresholdValid == isnormal(g_threshold) /\ RatLe(RatOne, g_threshold)

\* the statement: when pdfplaca_parse_cmdline returns true the threshold is
\* a normal number and at least 1
C24_ThresholdValidated == pc = "parse_true" => ThresholdValid

(***************************************************************************)
(* The phases of a solve.                                                  *)
(***************************************************************************)
\* a pass of the search loop has not grown the font size: a scale has been
\* stretched, or the loop has been left
GrowingOver ==
    \/ RatLt(RatOne, scale_x)
    \/ RatLt(RatOne, scale_y)
    \/ pc \notin {"draw_text", "scaling", "h_loop", "v_loop"}

\* C25: once a pass of the search loop of a solver has not grown the font
\* size, the font size stays as it is, and scale_x and scale_y are never both
\* above 1: a solve stretches one of them only.
C25_PhaseOrder ==
    [][/\ GrowingOver => font_size' = font_size
       /\ ~(RatLt(RatOne, scale_x') /\ RatLt(RatOne, scale_y'))]_vars

\* a solve has grown the font size, then stretched scale_y, and is in its
\* search loop still
C25_Witness ==
    /\ pc \in {"h_loop", "v_loop"}
    /\ steps.grow > 0
    /\ steps.stretch_y > 1
    /\ RatLt(RatOne, scale_y)
    /\ RatEq(scale_x, RatOne)

(***************************************************************************)
(* What u32_from_u8 reads.                                                 *)
(***************************************************************************)
\* the statement: the calls of u32_from_u8 in a script detector read the
\* bytes of the text and its terminating NUL only
C26_NoReadPastNul ==
    pc = "decode_done" => \A i \in fn_result.reads : i <= Len(fn_arg) + 1

(***************************************************************************)
(* A Row against the width of its band.                                    *)
(***************************************************************************)
\* the sum of the advances of the Row at the font size of the fit, scaled
ScaledRowWidth == RatMul(pdf_get_total_text_width(cr, text, font_size), scale_x)

\* the Character drawn at list[i] lies in [x0, x0 + width]
HWithinBand(list, i) ==
    /\ RatLe(x0, list[i].x)
    /\ RatLe(RatAdd(list[i].x,
                    RatMul(cairo_text_extents(cr, list[i].ch, font_size).x_advance,
                           scale_x)),
             RatAdd(x0, width))

\* the statement: when pdf_draw_h_text has drawn a Row, the scaled Row is
\* not wider than the band and every Character lies within the band
C27_HFitsBand ==
    (pc = "drawn" /\ ~g_vertical)
        => /\ RatLe(ScaledRowWidth, width)
           /\ \A i \in 1 .. Len(band_drawn) : HWithinBand(band_drawn, i)

====
